---- MODULE Spec2Model ----
(***************************************************************************)
(* Device session of pymakr-vsc: the connection flags of one Device, the   *)
(* command queue behind its adapter (createQueue, used by the blocking     *)
(* proxy), the time allowances of waitFor, and the calls connect(),        *)
(* disconnect(), runScript() and updateConnection() (Spec); the            *)
(* reconnection policy of updateConnection() (SpecPolicy); upload() with   *)
(* the board's file system (SpecUpload); downloadProject (SpecDownload).   *)
(*                                                                         *)
(* One step of the model is one synchronous run of JavaScript: from an     *)
(* event (a call, a transport settlement, a timer) to the next await.      *)
(***************************************************************************)
EXTENDS Integers, Sequences, FiniteSets, TLC

(* ------------------------------------------------------------------ *)
(* Bounds of the model                                                 *)
(* ------------------------------------------------------------------ *)
\* calls of connect / disconnect / runScript / sendData in one behaviour
MaxCalls == 2
\* calls of upload() in one behaviour
MaxUploads == 2
\* devices associated with the project put in dev mode
MaxDevices == 2
\* local file saves in one behaviour
MaxSaves == 2
\* changes of a device published after its construction
MaxSets == 2
\* subscriptions to a device's store after its construction
MaxSubscribes == 2
\* calls of a queue made by createQueue
MaxQueued == 4
\* calls of a throttled function
MaxThrottled == 3
\* promises pushed to an onResolveAll array
MaxPushes == 4
\* calls of a function wrapped by once
MaxOnceCalls == 4
\* the largest amount of time (ms) one Tick lets pass
TimeStep == 2000

(* ------------------------------------------------------------------ *)
(* Program constants                                                   *)
(* ------------------------------------------------------------------ *)
\* waitFor(connectPromise, 2000, ...)
ConnectTimeout == 2000
\* waitFor(this.adapter.getBoardInfo(), 10000, ...)
BoardInfoTimeout == 10000
\* waitFor(connectPromise, 2000, ...) in disconnect()
DisconnectTimeout == 2000

\* the fallback errors handed to waitFor
ConnectTimeoutMsg == "Timed out while connecting."
BoardInfoTimeoutMsg == "timed out while getting board info"
DisconnectTimeoutMsg == "Timed out while disconnecting."
TimeoutMsgs == {ConnectTimeoutMsg, BoardInfoTimeoutMsg, DisconnectTimeoutMsg}
\* a rejection that comes from the transport itself
TransportError == "transport error"

\* a proxy without exceptions
ExceptionsNone == {}

\* createBlockingProxy(rawAdapter, { exceptions: ["sendData"] })
Exceptions == {"sendData"}

Protocols == {"serial", "telnet"}
\* "" stands for a setting that is not set (undefined)
AutoConnectValues == {"always", "lastState", "onLostConnection", "never"}

VARIABLES
  protocol,          \* Device.protocol
  connected,         \* Device.connected
  connecting,        \* Device.connecting
  online,            \* Device.online
  lostConnection,    \* Device.lostConnection
  info,              \* Device.info (FALSE = null)
  connectingPromise, \* Device.__connectingPromise: index into calls, 0 = null
  devAutoConnect,    \* this.config.get().autoConnect
  globalAutoConnect, \* this.pymakr.config.get().get("autoConnect")
  persisted,         \* workspaceState[`pymakr.devices.${id}.state`]
  queue,             \* createQueue: queue (adapter operations waiting for their turn)
  isRunning,         \* createQueue: isRunning
  wake,              \* createQueue: imDone was called, runQueue has not yet resumed
  ops,               \* the calls made on the adapter, in call order
  calls,             \* the calls made on the Device, in call order
  timers,            \* the setTimeout timers armed by waitFor
  callNotes,         \* observer: for each call of `calls`, how and when it was made
  lastEval,          \* observer: the last updateConnection() of an online, not-connected device
  tree,              \* the local source of an upload: directory |-> its readdirSync
  destination,       \* the destination handed to upload(), split at "/"
  board,             \* the board's file system: directories, files with their content
  todo,              \* _uploadDir's loops: the entries still to upload, in order
  xfers,             \* the mkdir and putFile calls made on the adapter, in call order
  uploads,           \* the calls of upload(), in call order
  listing,           \* what adapter.listFiles("", { recursive: true }) answers
  download,          \* the call of downloadProject: where it is, how it settled
  gets,              \* adapter.getFile of each listed file
  writes,            \* writeFile of each listed file
  localDirs,         \* the directories of the local file system
  projectDevices,    \* dev mode: the number of devices associated with the project
  wState,            \* dev mode: the watcher's state
  active,            \* dev mode: project.watcher.active
  deviceManagers,    \* dev mode: project.watcher.deviceManagers
  boardLog,          \* dev mode: what the board's terminal has shown in this session
  prompts,           \* dev mode: readiness prompts seen since the restart
  pendingSave,       \* dev mode: a file was saved while the watcher was busy
  saves,             \* dev mode: local file saves so far
  ctorPc,            \* store: the position of the Device constructor
  storeSubs,         \* store: the subscribers, in subscription order
  subCount,          \* store: subscribe() calls so far
  storeSets,         \* store: the values set so far
  delivered,         \* store: the calls of subscribers so far
  wfPc,              \* waitFor: "start" before the call, "called" after it
  wfAllowance,       \* waitFor: the kind of timeAllowance, "number" or "promise"
  wfFallback,        \* waitFor: the kind of fallbackActionOrErr
  wfPrimary,         \* waitFor: the state of primaryPromise
  wfTime,            \* waitFor: the state of the timer or of the allowance promise
  wfResolved,        \* waitFor: the `resolved` flag of the promise variant
  wfCalls,           \* waitFor: calls of the fallback function
  wfActions,         \* waitFor: runs of `action`
  wfReturned,        \* waitFor: the promise the fallback function returned
  wfFallbackPromise, \* waitFor: the state of fallbackPromise
  wfResult,          \* waitFor: the state of the promise waitFor returned
  wfFirst,           \* waitFor: which of primary and allowance came first
  thRunning,         \* throttle: isRunning
  thSubs,            \* throttle: subs, the calls waiting for the invocation
  thTimers,          \* throttle: the calls whose setTimeout is armed
  thCalls,           \* throttle: the calls of the wrapper so far
  thInvocations,     \* throttle: the invocations of fn so far
  raPushes,          \* onResolveAll: the promises pushed so far
  raClaim,           \* onResolveAll: claim, the id of the latest push (0: null)
  raWaiting,         \* onResolveAll: the pushes suspended at `await promisePyramid`
  raCallbacks,       \* onResolveAll: the calls of the callback so far
  onExpired,         \* once: expired
  onResult,          \* once: result
  onFrames,          \* once: the wrapper calls that are inside fn, innermost last
  onCalls,           \* once: calls of the wrapper so far
  onInvocations,     \* once: invocations of fn so far
  onReturns          \* once: how the wrapper calls ended, in the order they ended

devVars == <<protocol, connected, connecting, online, lostConnection, info,
             connectingPromise, devAutoConnect, globalAutoConnect, persisted>>
queueVars == <<queue, isRunning, wake>>
sessionVars == <<protocol, connected, connecting, online, lostConnection, info,
                 connectingPromise, devAutoConnect, globalAutoConnect, persisted,
                 queue, isRunning, wake, ops, calls, timers>>
policyVars == <<callNotes, lastEval>>
uploadVars == <<tree, destination, board, todo, xfers, uploads>>
downloadVars == <<listing, download, gets, writes, localDirs>>
watcherVars == <<projectDevices, wState, active, deviceManagers, boardLog, prompts,
                 pendingSave, saves>>
storeVars == <<ctorPc, storeSubs, subCount, storeSets, delivered>>
waitForVars == <<wfPc, wfAllowance, wfFallback, wfPrimary, wfTime, wfResolved, wfCalls,
                 wfActions, wfReturned, wfFallbackPromise, wfResult, wfFirst>>
throttleVars == <<thRunning, thSubs, thTimers, thCalls, thInvocations>>
resolveAllVars == <<raPushes, raClaim, raWaiting, raCallbacks>>
onceVars == <<onExpired, onResult, onFrames, onCalls, onInvocations, onReturns>>
utilVars == <<throttleVars, resolveAllVars, onceVars>>
laterVars == <<watcherVars, storeVars, waitForVars, utilVars>>
syncVars == <<uploadVars, downloadVars, laterVars>>
vars == <<sessionVars, policyVars, uploadVars, downloadVars, laterVars>>

Settled == {"resolved", "rejected"}

(* ------------------------------------------------------------------ *)
(* createQueue                                                         *)
(* ------------------------------------------------------------------ *)
\* a loop that leaves isRunning set when it finds the queue empty
RunQueueLoopNoReset(q) ==
  IF q # <<>>
    THEN [queue |-> Tail(q), isRunning |-> TRUE, granted |-> Head(q)]
    ELSE [queue |-> q, isRunning |-> TRUE, granted |-> 0]

\* one turn of runQueue's while loop, up to its await (or to the loop's exit):
\* the head entry is shifted and called with resolve, or isRunning is reset
RunQueueLoop(q) ==
  IF q # <<>>
    THEN [queue |-> Tail(q), isRunning |-> TRUE, granted |-> Head(q)]
    ELSE [queue |-> q, isRunning |-> FALSE, granted |-> 0]

\* runQueue with its guard removed: every call runs the loop
runQueueUnguarded(q, running) == RunQueueLoop(q)

\* runQueue, called from queue(): a no-op while a runner is active
runQueue(q, running) ==
  IF ~running
    THEN RunQueueLoop(q)
    ELSE [queue |-> q, isRunning |-> running, granted |-> 0]

\* the function createQueue returns: queue.push(resolve); runQueue()
QueueCall(q, running, o) == runQueue(Append(q, o), running)

\* entry(resolve): the caller waiting in `await queue()` gets its turn
Grant(opsV, g) == IF g = 0 THEN opsV ELSE [opsV EXCEPT ![g].status = "granted"]

(* ------------------------------------------------------------------ *)
(* createBlockingProxy                                                 *)
(* ------------------------------------------------------------------ *)
Adapter == [ops |-> ops, queue |-> queue, isRunning |-> isRunning]

\* a method call on the proxied adapter, made by call c of the Device:
\* an exception is called on the raw adapter at once, any other method
\* waits for its turn in the queue
ProxyCall(a, kind, c) ==
  LET o == Len(a.ops) + 1 IN
  IF kind \in Exceptions
    THEN [a EXCEPT !.ops = Append(a.ops, [kind |-> kind, status |-> "running", call |-> c])]
    ELSE LET r == QueueCall(a.queue, a.isRunning, o)
             appended == Append(a.ops, [kind |-> kind, status |-> "queued", call |-> c])
         IN [ops |-> Grant(appended, r.granted), queue |-> r.queue, isRunning |-> r.isRunning]

SetAdapter(a) ==
  /\ ops' = a.ops
  /\ queue' = a.queue
  /\ isRunning' = a.isRunning

(* ------------------------------------------------------------------ *)
(* Device                                                              *)
(* ------------------------------------------------------------------ *)
\* handleState("save"): cherryPick(this, ["connected", "name"])
saveState(conn) == [exists |-> TRUE, connected |-> conn]

\* handleState("load"): state || {}
loadState == [connected |-> persisted.exists /\ persisted.connected]

\* a change of the device that reaches no subscriber
changedUnsaved(conn) == UNCHANGED persisted

\* changed() -> set(this) -> onChanged() -> saveState()
changed(conn) == persisted' = saveState(conn)

NewCall(kind, pc, o) ==
  [kind |-> kind, pc |-> pc, op |-> o, result |-> "pending", err |-> "none",
   retry |-> \E i \in 1..Len(calls) :
               /\ calls[i].kind = "connect"
               /\ calls[i].result = "rejected"
               /\ calls[i].err = ConnectTimeoutMsg]

\* Device.connect(): the synchronous run of the call, up to the first await
\* of the promise's executor and the `this.connecting = false` after it
connect ==
  LET c == Len(calls) + 1 IN
  IF ~connecting
    THEN /\ connectingPromise' = c
         /\ connecting' = FALSE
         /\ IF protocol = "serial"
              THEN LET a == ProxyCall(Adapter, "connectSerial", c)
                       o == Len(a.ops)
                   IN /\ SetAdapter(a)
                      /\ timers' = timers \cup {[op |-> o, remaining |-> ConnectTimeout]}
                      /\ calls' = Append(calls, NewCall("connect", "waitConnect", o))
              ELSE /\ calls' = Append(calls, NewCall("connect", "executorDone", 0))
                   /\ UNCHANGED <<ops, queue, isRunning, timers>>
    ELSE UNCHANGED <<connectingPromise, connecting, calls, ops, queue, isRunning, timers>>

\* the root directory of the board, and the directory uploads go to
Root == <<"", "">>
Flash == <<"", "flash">>

\* no upload: nothing to upload, a board with its /flash and nothing on it
NoUpload ==
  /\ tree = <<>>
  /\ destination = Root
  /\ board = [dirs |-> {Root, Flash}, files |-> {}]
  /\ todo = <<>>
  /\ xfers = <<>>
  /\ uploads = <<>>

\* the project's folder
Folder == <<"", "project">>

\* no download: nothing listed, downloadProject not called
NoDownload ==
  /\ listing = <<>>
  /\ download = [pc |-> "idle", result |-> "none"]
  /\ gets = <<>>
  /\ writes = <<>>
  /\ localDirs = {Root, Folder}

\* no dev mode: the watcher is idle
NoDevMode ==
  /\ projectDevices = 0
  /\ wState = "Idle"
  /\ active = FALSE
  /\ deviceManagers = <<>>
  /\ boardLog = <<>>
  /\ prompts = 0
  /\ pendingSave = FALSE
  /\ saves = 0

\* no store: a constructed device that publishes nothing
NoStore ==
  /\ ctorPc = 3
  /\ storeSubs = <<>>
  /\ subCount = 0
  /\ storeSets = <<>>
  /\ delivered = <<>>

Pending == [status |-> "pending", value |-> "none"]

\* no waitFor call under observation
NoWaitFor ==
  /\ wfPc = "start"
  /\ wfAllowance = "number"
  /\ wfFallback = "string"
  /\ wfPrimary = Pending
  /\ wfTime = "none"
  /\ wfResolved = FALSE
  /\ wfCalls = 0
  /\ wfActions = 0
  /\ wfReturned = "none"
  /\ wfFallbackPromise = Pending
  /\ wfResult = Pending
  /\ wfFirst = "none"

\* no throttled function in use
NoThrottle ==
  /\ thRunning = FALSE
  /\ thSubs = <<>>
  /\ thTimers = {}
  /\ thCalls = <<>>
  /\ thInvocations = <<>>

\* no onResolveAll array in use
NoResolveAll ==
  /\ raPushes = <<>>
  /\ raClaim = 0
  /\ raWaiting = {}
  /\ raCallbacks = <<>>

\* once(fn) just made: let expired = false; let result
NoOnce ==
  /\ onExpired = FALSE
  /\ onResult = "undefined"
  /\ onFrames = <<>>
  /\ onCalls = 0
  /\ onInvocations = 0
  /\ onReturns = <<>>

\* the helpers of utils/misc at rest
NoUtil == NoThrottle /\ NoResolveAll /\ NoOnce

\* the parts of the extension that a specification leaves at rest
NoLater == NoDevMode /\ NoStore /\ NoWaitFor /\ NoUtil

\* no updateConnection() of an online, not-connected device has been seen
NoEval == [seen |-> FALSE, last |-> FALSE, lost |-> FALSE, invoked |-> 0]

\* the settings a session starts with: nothing set (package.json declares no
\* autoConnect setting), a workspace-wide policy, a per-device override of one
InitialSettings ==
  {<<"", "">>, <<"", "onLostConnection">>, <<"lastState", "never">>}

\* the record an earlier session left in workspaceState: none, or the one
\* saved while the device was connected
InitialRecords ==
  {[exists |-> FALSE, connected |-> FALSE], [exists |-> TRUE, connected |-> TRUE]}

Init ==
  /\ protocol \in Protocols
  /\ connected = FALSE
  /\ connecting = FALSE
  /\ online = FALSE
  /\ lostConnection = FALSE
  /\ info = FALSE
  /\ connectingPromise = 0
  /\ \E s \in InitialSettings : devAutoConnect = s[1] /\ globalAutoConnect = s[2]
  /\ persisted \in InitialRecords
  /\ queue = <<>>
  /\ isRunning = FALSE
  /\ wake = FALSE
  /\ ops = <<>>
  /\ calls = <<>>
  /\ timers = {}
  /\ callNotes = <<>>
  /\ lastEval = NoEval
  /\ NoUpload
  /\ NoDownload
  /\ NoLater

\* commands.connect: device.connect()
Connect ==
  /\ Len(calls) < MaxCalls
  /\ connect
  /\ UNCHANGED <<protocol, connected, online, lostConnection, info,
                 devAutoConnect, globalAutoConnect, persisted, wake>>

\* Device.disconnect(), up to its await
Disconnect ==
  /\ Len(calls) < MaxCalls
  /\ LET c == Len(calls) + 1
         a == ProxyCall(Adapter, "disconnect", c)
         o == Len(a.ops)
     IN /\ SetAdapter(a)
        /\ timers' = timers \cup {[op |-> o, remaining |-> DisconnectTimeout]}
        /\ calls' = Append(calls, NewCall("disconnect", "waitDisconnect", o))
  /\ UNCHANGED <<devVars, wake>>

\* Device.runScript(script, options), up to its await
RunScript ==
  /\ Len(calls) < MaxCalls
  /\ LET c == Len(calls) + 1
         a == ProxyCall(Adapter, "runScript", c)
     IN /\ SetAdapter(a)
        /\ calls' = Append(calls, NewCall("runScript", "waitScript", Len(a.ops)))
  /\ UNCHANGED <<devVars, wake, timers>>

\* adapter.sendData(...): a method of the bypass set, called on the adapter
SendData ==
  /\ Len(calls) < MaxCalls
  /\ LET c == Len(calls) + 1
         a == ProxyCall(Adapter, "sendData", c)
     IN /\ SetAdapter(a)
        /\ calls' = Append(calls, NewCall("sendData", "waitSend", Len(a.ops)))
  /\ UNCHANGED <<devVars, wake, timers>>

\* the registry sees the device appear or disappear
SetOnline ==
  /\ online' = ~online
  /\ UNCHANGED <<protocol, connected, connecting, lostConnection, info, connectingPromise,
                 devAutoConnect, globalAutoConnect, persisted,
                 queue, isRunning, wake, ops, calls, timers>>

\* the workspace-wide setting taking precedence over the device's own
autoConnectGlobalFirst ==
  IF globalAutoConnect # "" THEN globalAutoConnect ELSE devAutoConnect

\* this.config.get().autoConnect || this.pymakr.config.get().get("autoConnect")
autoConnect == IF devAutoConnect # "" THEN devAutoConnect ELSE globalAutoConnect

shouldConnect == autoConnect = "always"

\* resuming whatever the saved record says
shouldResumeAlways == autoConnect = "lastState"

shouldResume == autoConnect = "lastState" /\ loadState.connected

shouldReconnect == autoConnect = "onLostConnection" /\ lostConnection

\* Device.updateConnection()
UpdateConnection ==
  IF online /\ ~connected
    THEN IF shouldConnect \/ shouldResume \/ shouldReconnect
           THEN /\ Len(calls) < MaxCalls
                /\ connect
                /\ UNCHANGED <<protocol, connected, online, lostConnection, info,
                               devAutoConnect, globalAutoConnect, persisted, wake>>
           ELSE UNCHANGED sessionVars
    ELSE /\ lostConnection' = (lostConnection \/ connected)
         /\ connected' = FALSE
         /\ changed(FALSE)
         /\ UNCHANGED <<protocol, connecting, online, info, connectingPromise,
                        devAutoConnect, globalAutoConnect,
                        queue, isRunning, wake, ops, calls, timers>>

(* ------------------------------------------------------------------ *)
(* The adapter's side: turns of the queue, the transport, the timers   *)
(* ------------------------------------------------------------------ *)
\* runQueue resumes after `await new Promise(...)`: imDone has resolved it
RunnerResume ==
  /\ wake
  /\ wake' = FALSE
  /\ LET r == RunQueueLoop(queue)
     IN /\ queue' = r.queue
        /\ isRunning' = r.isRunning
        /\ ops' = Grant(ops, r.granted)
  /\ UNCHANGED <<devVars, calls, timers>>

\* the proxy's method resumes after `await queue()` and calls the raw adapter
StartOp(o) ==
  /\ ops[o].status = "granted"
  /\ ops' = [ops EXCEPT ![o].status = "running"]
  /\ UNCHANGED <<devVars, queueVars, calls, timers>>

\* a continuation is due: runQueue after its await, or a proxied method after
\* `await queue()`. Promise continuations run before any timer or transport
\* event is handled
ContinuationDue == wake \/ \E o \in 1..Len(ops) : ops[o].status = "granted"

\* waitFor: primaryPromise.then(() => clearTimeout(timeout)): only a
\* resolution of the primary clears the timer
TimersAfter(o, outcome) ==
  IF outcome = "resolved" THEN {t \in timers : t.op # o} ELSE timers

\* a caller that runs on whenever its adapter operation settles
AwaitedLate(o) == TRUE

\* call c of the Device is still suspended on adapter operation o
Awaited(o) ==
  LET c == ops[o].call
  IN calls[c].result = "pending" /\ calls[c].op = o

Reject(c, err) ==
  [calls EXCEPT ![c].result = "rejected", ![c].err = err, ![c].pc = "done"]

Resolve(c) ==
  [calls EXCEPT ![c].result = "resolved", ![c].pc = "done"]

\* connect(): the catch block (showErrorMessage, log.error, reject(err))
connectCatch(c, err) ==
  /\ calls' = Reject(c, err)
  /\ UNCHANGED devVars

\* connect(): from `await waitFor(connectPromise, 2000, ...)` to the next await
connectAfterConnectSerial(c, ops1, outcome) ==
  IF outcome = "resolved"
    THEN LET a == ProxyCall([ops |-> ops1, queue |-> queue, isRunning |-> isRunning],
                            "getBoardInfo", c)
             o == Len(a.ops)
         IN /\ connected' = TRUE
            /\ lostConnection' = FALSE
            /\ changed(TRUE)
            /\ SetAdapter(a)
            /\ timers' = {t \in timers : t.op # calls[c].op}
                            \cup {[op |-> o, remaining |-> BoardInfoTimeout]}
            /\ calls' = [calls EXCEPT ![c].pc = "waitInfo", ![c].op = o]
            /\ UNCHANGED <<protocol, connecting, online, info, connectingPromise,
                           devAutoConnect, globalAutoConnect>>
    ELSE /\ connectCatch(c, TransportError)
         /\ ops' = ops1
         /\ UNCHANGED <<queue, isRunning, timers>>

\* connect(): from `this.info = await waitFor(this.adapter.getBoardInfo(), 10000, ...)`
\* to resolve() or to the catch block (activeDeviceStore.setToLastUsedOrFirstFound()
\* belongs to another component and is taken to resolve at once)
connectAfterBoardInfo(c, ops1, outcome) ==
  /\ ops' = ops1
  /\ timers' = TimersAfter(calls[c].op, outcome)
  /\ UNCHANGED <<queue, isRunning>>
  /\ IF outcome = "resolved"
       THEN /\ info' = TRUE
            /\ calls' = Resolve(c)
            /\ UNCHANGED <<protocol, connected, connecting, online, lostConnection,
                           connectingPromise, devAutoConnect, globalAutoConnect, persisted>>
       ELSE connectCatch(c, TransportError)

\* disconnect(): after `await waitFor(connectPromise, 2000, ...)`
disconnectAfterWait(c, ops1, outcome) ==
  /\ ops' = ops1
  /\ timers' = TimersAfter(calls[c].op, outcome)
  /\ UNCHANGED <<queue, isRunning>>
  /\ IF outcome = "resolved"
       THEN /\ connected' = FALSE
            /\ lostConnection' = FALSE
            /\ changed(FALSE)
            /\ calls' = Resolve(c)
            /\ UNCHANGED <<protocol, connecting, online, info, connectingPromise,
                           devAutoConnect, globalAutoConnect>>
       ELSE /\ calls' = Reject(c, TransportError)
            /\ UNCHANGED devVars

\* runScript swallowing the adapter's rejection
runScriptSwallow(c, outcome) == Resolve(c)

\* Device.runScript(): `const result = await this.adapter.runScript(...)`;
\* return result: the adapter's outcome is the call's outcome
runScript(c, outcome) ==
  IF outcome = "resolved" THEN Resolve(c) ELSE Reject(c, TransportError)

scriptAfterWait(c, ops1, outcome) ==
  /\ ops' = ops1
  /\ calls' = runScript(c, outcome)
  /\ UNCHANGED <<devVars, queue, isRunning, timers>>

\* the transport settles the running adapter operation o; the proxy's method
\* calls imDone() and hands the outcome to the caller, whose code runs on to
\* its next await
OpSettle(o, outcome) ==
  /\ ~ContinuationDue
  /\ ops[o].status = "running"
  /\ wake' = (wake \/ ops[o].kind \notin Exceptions)
  /\ LET c == ops[o].call
         ops1 == [ops EXCEPT ![o].status = outcome]
     IN IF ~Awaited(o)
          THEN /\ ops' = ops1
               /\ timers' = TimersAfter(o, outcome)
               /\ UNCHANGED <<devVars, calls, queue, isRunning>>
          ELSE CASE calls[c].pc = "waitConnect" -> connectAfterConnectSerial(c, ops1, outcome)
                 [] calls[c].pc = "waitInfo" -> connectAfterBoardInfo(c, ops1, outcome)
                 [] calls[c].pc = "waitDisconnect" -> disconnectAfterWait(c, ops1, outcome)
                 [] OTHER -> scriptAfterWait(c, ops1, outcome)

\* the error a waitFor of call c rejects with when its allowance expires
FallbackErr(c) ==
  CASE calls[c].pc = "waitConnect" -> ConnectTimeoutMsg
    [] calls[c].pc = "waitInfo" -> BoardInfoTimeoutMsg
    [] OTHER -> DisconnectTimeoutMsg

\* waitFor: setTimeout's action runs: rej(fallbackActionOrErr). The race is
\* lost by a primary that has not settled, and the caller's await throws
TimerFire(t) ==
  /\ ~ContinuationDue
  /\ t.remaining = 0
  /\ timers' = timers \ {t}
  /\ LET c == ops[t.op].call
     IN IF Awaited(t.op)
          THEN IF calls[c].kind = "connect"
                 THEN connectCatch(c, FallbackErr(c))
                 ELSE /\ calls' = Reject(c, FallbackErr(c))
                      /\ UNCHANGED devVars
          ELSE UNCHANGED <<devVars, calls>>
  /\ UNCHANGED <<queueVars, ops>>

MinRemaining == CHOOSE m \in {t.remaining : t \in timers} :
                  \A t \in timers : m <= t.remaining

\* time passes, up to the next timer's expiry
Tick ==
  /\ ~ContinuationDue
  /\ timers # {}
  /\ \A t \in timers : t.remaining > 0
  /\ LET d == IF MinRemaining < TimeStep THEN MinRemaining ELSE TimeStep
     IN timers' = {[t EXCEPT !.remaining = @ - d] : t \in timers}
  /\ UNCHANGED <<devVars, queueVars, ops, calls>>

Next ==
  \/ Connect /\ UNCHANGED <<policyVars, syncVars>>
  \/ Disconnect /\ UNCHANGED <<policyVars, syncVars>>
  \/ RunScript /\ UNCHANGED <<policyVars, syncVars>>
  \/ SendData /\ UNCHANGED <<policyVars, syncVars>>
  \/ SetOnline /\ UNCHANGED <<policyVars, syncVars>>
  \/ UpdateConnection /\ UNCHANGED <<policyVars, syncVars>>
  \/ RunnerResume /\ UNCHANGED <<policyVars, syncVars>>
  \/ \E o \in 1..Len(ops) : StartOp(o) /\ UNCHANGED <<policyVars, syncVars>>
  \/ \E o \in 1..Len(ops), outcome \in Settled : OpSettle(o, outcome) /\ UNCHANGED <<policyVars, syncVars>>
  \/ \E t \in timers : TimerFire(t) /\ UNCHANGED <<policyVars, syncVars>>
  \/ Tick /\ UNCHANGED <<policyVars, syncVars>>

Spec == Init /\ [][Next]_vars

\* the time-bounded operations on their own: connect() and disconnect() of a
\* serial device, with the adapter's queue, the transport and the timers
InitTimed == Init /\ protocol = "serial"

TimedNext ==
  \/ Connect /\ UNCHANGED <<policyVars, syncVars>>
  \/ Disconnect /\ UNCHANGED <<policyVars, syncVars>>
  \/ RunnerResume /\ UNCHANGED <<policyVars, syncVars>>
  \/ \E o \in 1..Len(ops) : StartOp(o) /\ UNCHANGED <<policyVars, syncVars>>
  \/ \E o \in 1..Len(ops), outcome \in Settled : OpSettle(o, outcome) /\ UNCHANGED <<policyVars, syncVars>>
  \/ \E t \in timers : TimerFire(t) /\ UNCHANGED <<policyVars, syncVars>>
  \/ Tick /\ UNCHANGED <<policyVars, syncVars>>

SpecTimed == InitTimed /\ [][TimedNext]_vars

(* ------------------------------------------------------------------ *)
(* The reconnection policy, with an observer of the calls made. The     *)
(* transport answers every operation within its allowance here: the    *)
(* timers are armed and no time passes                                 *)
(* ------------------------------------------------------------------ *)
\* the settings: each policy as the workspace-wide setting with no override,
\* as the device's own setting alone, and as an override of another policy
PolicySettings ==
  {<<"", g>> : g \in {""} \cup AutoConnectValues}
    \cup {<<d, "">> : d \in AutoConnectValues}
    \cup {<<"always", "never">>, <<"never", "always">>,
          <<"lastState", "onLostConnection">>, <<"onLostConnection", "lastState">>}

\* the record an earlier session left: none, saved while connected, saved
\* while disconnected
PolicyRecords == InitialRecords \cup {[exists |-> TRUE, connected |-> FALSE]}

InitPolicy ==
  /\ protocol = "serial"
  /\ connected = FALSE
  /\ connecting = FALSE
  /\ online = FALSE
  /\ lostConnection = FALSE
  /\ info = FALSE
  /\ connectingPromise = 0
  /\ \E s \in PolicySettings : devAutoConnect = s[1] /\ globalAutoConnect = s[2]
  /\ persisted \in PolicyRecords
  /\ queue = <<>>
  /\ isRunning = FALSE
  /\ wake = FALSE
  /\ ops = <<>>
  /\ calls = <<>>
  /\ timers = {}
  /\ callNotes = <<>>
  /\ lastEval = NoEval
  /\ NoUpload
  /\ NoDownload
  /\ NoLater

\* the observer notes the call this step has made: whether updateConnection()
\* made it (auto) and the value lostConnection had when it was made
NoteCall(auto) ==
  /\ callNotes' = IF Len(calls') > Len(calls)
                    THEN Append(callNotes, [auto |-> auto, lost |-> lostConnection])
                    ELSE callNotes
  /\ UNCHANGED lastEval

\* the observer notes an updateConnection() of an online, not-connected
\* device: the saved record and lostConnection it ran with, and the number
\* of connect() calls it made
NoteEval ==
  /\ callNotes' = IF Len(calls') > Len(calls)
                    THEN Append(callNotes, [auto |-> TRUE, lost |-> lostConnection])
                    ELSE callNotes
  /\ lastEval' = IF online /\ ~connected
                   THEN [seen |-> TRUE,
                         last |-> (persisted.exists /\ persisted.connected),
                         lost |-> lostConnection,
                         invoked |-> Cardinality({c \in (Len(calls) + 1)..Len(calls') :
                                                    calls'[c].kind = "connect"})]
                   ELSE lastEval

PolicyNext ==
  \/ Connect /\ NoteCall(FALSE) /\ UNCHANGED syncVars
  \/ Disconnect /\ NoteCall(FALSE) /\ UNCHANGED syncVars
  \/ SetOnline /\ UNCHANGED <<policyVars, syncVars>>
  \/ UpdateConnection /\ NoteEval /\ UNCHANGED syncVars
  \/ RunnerResume /\ UNCHANGED <<policyVars, syncVars>>
  \/ \E o \in 1..Len(ops) : StartOp(o) /\ UNCHANGED <<policyVars, syncVars>>
  \/ \E o \in 1..Len(ops), outcome \in Settled : OpSettle(o, outcome) /\ UNCHANGED <<policyVars, syncVars>>

SpecPolicy == InitPolicy /\ [][PolicyNext]_vars

(* ------------------------------------------------------------------ *)
(* Upload: Device.upload, _upload, _uploadDir, _uploadFile, and the     *)
(* board behind adapter.mkdir and adapter.putFile. Paths are sequences *)
(* of the segments between "/": "/flash/lib" is <<"", "flash", "lib">> *)
(* ------------------------------------------------------------------ *)
\* the errors the board's file system answers with
EEXIST == "OSError: [Errno 17] EEXIST"
ENOENT == "OSError: [Errno 2] ENOENT"
EISDIR == "OSError: [Errno 21] EISDIR"
\* a failure of the transport itself
EIO == "OSError: [Errno 5] EIO"
\* readFileSync throwing
ReadError == "EACCES: permission denied, open"

\* the content of every local file, and what an earlier upload left
LocalData == "new"
OldData == "old"

\* .replace(/\/+/g, "/"): every run of slashes becomes one slash, so the
\* empty segments go, but for a leading and a trailing one
Collapse(segs) ==
  LET n == Len(segs)
      f[i \in 0..n] ==
        IF i = 0 THEN <<>>
        ELSE IF segs[i] # "" \/ i = 1 \/ i = n THEN Append(f[i - 1], segs[i])
        ELSE f[i - 1]
  IN f[n]

\* path.dirname of an absolute path
dirname(p) ==
  LET d == SubSeq(p, 1, Len(p) - 1)
  IN IF d = <<"">> THEN Root ELSE d

\* `/flash/${destination}`.replace(/\/+/g, "/")
BoardPath(dst) == Collapse(Flash \o dst)

\* statSync(source).isDirectory()
IsDirectory(source) == source \in DOMAIN tree

Entry(source, dst) == [source |-> source, destination |-> dst]

\* _uploadDir: readdirSync(dir), each file as `${dir}/${file}` and
\* `${destination}/${file}`
DirEntries(e) ==
  [i \in 1..Len(tree[e.source]) |->
     Entry(Append(e.source, tree[e.source][i]), Append(e.destination, tree[e.source][i]))]

\* _upload and _uploadDir down to the next file: a directory at the head of
\* the entries still to upload is replaced by its own entries
RECURSIVE Descend(_)
Descend(stack) ==
  IF stack = <<>> THEN stack
  ELSE IF IsDirectory(Head(stack).source)
         THEN Descend(DirEntries(Head(stack)) \o Tail(stack))
         ELSE stack

\* a call made on the adapter by upload u
AdapterCall(kind, path, u) ==
  [kind |-> kind, path |-> path, upload |-> u, status |-> "pending",
   check |-> FALSE, wrote |-> FALSE]

\* putFile without options
putOptionsNone == [checkIfSimilarBeforeUpload |-> FALSE]

\* the options _uploadFile hands to putFile
putOptions == [checkIfSimilarBeforeUpload |-> TRUE]

\* a catch block that lets no error through
mkdirToleratedAny(err) == TRUE

\* _uploadFile's catch: if (!err.message.match("OSError: \\[Errno 17\\] EEXIST")) throw err
mkdirTolerated(err) == err = EEXIST

\* _uploadFile calling putFile without waiting for mkdir
uploadFileUnawaited(xf, u, e) ==
  Append(Append(xf, AdapterCall("mkdir", dirname(BoardPath(e.destination)), u)),
         AdapterCall("putFile", BoardPath(e.destination), u))

\* _uploadFile up to `await this.adapter.mkdir(destinationDir)`
uploadFileBegin(xf, u, e) ==
  Append(xf, AdapterCall("mkdir", dirname(BoardPath(e.destination)), u))

\* _uploadFile after the mkdir: return this.adapter.putFile(_destination, data, {...})
uploadFilePut(xf, u, e) ==
  Append(xf, [AdapterCall("putFile", BoardPath(e.destination), u)
                EXCEPT !.check = putOptions.checkIfSimilarBeforeUpload])

\* upload(): the catch block (showErrorMessage, log.error); the function
\* returns and its promise resolves
uploadCatch(ups, u, err) ==
  [ups EXCEPT ![u] = [result |-> "resolved", error |-> err]]

\* upload u runs on from the entries `stack` to its next await: to the mkdir
\* of the next file, to the end of the tree, or to a throwing readFileSync
Proceed(u, stack, xf, ups, readOk) ==
  LET rest == Descend(stack)
  IN IF rest = <<>>
       THEN /\ todo' = <<>>
            /\ xfers' = xf
            /\ uploads' = [ups EXCEPT ![u].result = "resolved"]
       ELSE IF readOk
              THEN /\ todo' = rest
                   /\ xfers' = uploadFileBegin(xf, u, Head(rest))
                   /\ uploads' = ups
              ELSE /\ todo' = <<>>
                   /\ xfers' = xf
                   /\ uploads' = uploadCatch(ups, u, ReadError)

\* the board's os.mkdir: one directory, whose parent must exist
mkdirResult(b, p) ==
  IF p \in b.dirs \/ \E f \in b.files : f.path = p THEN EEXIST
  ELSE IF dirname(p) \notin b.dirs THEN ENOENT
  ELSE "resolved"

\* the board's side of putFile: the file's directory must exist
putFileResult(b, p) ==
  IF dirname(p) \notin b.dirs THEN ENOENT
  ELSE IF p \in b.dirs THEN EISDIR
  ELSE "resolved"

\* putFile with checkIfSimilarBeforeUpload sends nothing when the board holds
\* the same content
putFileWrites(b, x) ==
  ~ (x.check /\ [path |-> x.path, data |-> LocalData] \in b.files)

\* the local trees: a single file, a flat folder, a folder with a library
\* folder, a folder whose only entry is a folder of folders, and a folder
\* whose sub-folder holds a file and a folder
FileSource == <<>>
FlatTree == (<<>> :> <<"main.py">>)
LibTree == (<<>> :> <<"lib", "main.py">>) @@ (<<"lib">> :> <<"x.py">>)
DeepTree == (<<>> :> <<"a">>) @@ (<<"a">> :> <<"b">>) @@ (<<"a", "b">> :> <<"c.py">>)
NestedTree ==
  (<<>> :> <<"a">>) @@ (<<"a">> :> <<"a.py", "b">>) @@ (<<"a", "b">> :> <<"c.py">>)

UploadInputs ==
  {[tree |-> FileSource, destination |-> <<"", "boot.py">>]}
    \cup {[tree |-> t, destination |-> Root] : t \in {FlatTree, LibTree, DeepTree, NestedTree}}

\* the boards: nothing under /flash, an older main.py, a file named lib
Boards ==
  {[dirs |-> {Root, Flash}, files |-> {}],
   [dirs |-> {Root, Flash}, files |-> {[path |-> <<"", "flash", "main.py">>, data |-> OldData]}],
   [dirs |-> {Root, Flash}, files |-> {[path |-> <<"", "flash", "lib">>, data |-> OldData]}]}

\* a connected device with nothing in flight
QuietSession ==
  /\ protocol = "serial"
  /\ connected = TRUE
  /\ connecting = FALSE
  /\ online = TRUE
  /\ lostConnection = FALSE
  /\ info = TRUE
  /\ connectingPromise = 0
  /\ devAutoConnect = ""
  /\ globalAutoConnect = ""
  /\ persisted = saveState(TRUE)
  /\ queue = <<>>
  /\ isRunning = FALSE
  /\ wake = FALSE
  /\ ops = <<>>
  /\ calls = <<>>
  /\ timers = {}
  /\ callNotes = <<>>
  /\ lastEval = NoEval

InitUpload ==
  /\ QuietSession
  /\ NoDownload
  /\ NoLater
  /\ \E i \in UploadInputs : tree = i.tree /\ destination = i.destination
  /\ board \in Boards
  /\ todo = <<>>
  /\ xfers = <<>>
  /\ uploads = <<>>

\* no call of upload() is in progress
UploadIdle == \A u \in 1..Len(uploads) : uploads[u].result # "pending"

\* Device.upload(source, destination), up to its first await
Upload ==
  /\ Len(uploads) < MaxUploads
  /\ UploadIdle
  /\ \E readOk \in BOOLEAN :
       Proceed(Len(uploads) + 1, <<Entry(<<>>, destination)>>, xfers,
               Append(uploads, [result |-> "pending", error |-> "none"]), readOk)
  /\ UNCHANGED <<tree, destination, board>>

\* the adapter's mkdir settles (fault: the transport fails); _uploadFile
\* runs on to putFile, or the error reaches upload()'s catch
MkdirSettle(fault) ==
  /\ xfers # <<>>
  /\ LET i == Len(xfers)
         x == xfers[i]
         out == IF fault THEN EIO ELSE mkdirResult(board, x.path)
         xf1 == [xfers EXCEPT ![i].status = out]
     IN /\ x.kind = "mkdir"
        /\ x.status = "pending"
        /\ board' = IF out = "resolved" THEN [board EXCEPT !.dirs = @ \cup {x.path}]
                                         ELSE board
        /\ IF out = "resolved" \/ mkdirTolerated(out)
             THEN /\ xfers' = uploadFilePut(xf1, x.upload, Head(todo))
                  /\ UNCHANGED <<todo, uploads>>
             ELSE /\ xfers' = xf1
                  /\ todo' = <<>>
                  /\ uploads' = uploadCatch(uploads, x.upload, out)
  /\ UNCHANGED <<tree, destination>>

\* the adapter's putFile settles (fault: the transport fails); _uploadDir's
\* loop runs on to the next file, or the error reaches upload()'s catch
PutFileSettle(fault) ==
  /\ xfers # <<>>
  /\ LET i == Len(xfers)
         x == xfers[i]
         out == IF fault THEN EIO ELSE putFileResult(board, x.path)
         wrote == out = "resolved" /\ putFileWrites(board, x)
         xf1 == [xfers EXCEPT ![i].status = out, ![i].wrote = wrote]
     IN /\ x.kind = "putFile"
        /\ x.status = "pending"
        /\ board' = IF wrote
                      THEN [board EXCEPT !.files = {f \in @ : f.path # x.path}
                                           \cup {[path |-> x.path, data |-> LocalData]}]
                      ELSE board
        /\ IF out = "resolved"
             THEN \E readOk \in BOOLEAN : Proceed(x.upload, Tail(todo), xf1, uploads, readOk)
             ELSE /\ xfers' = xf1
                  /\ todo' = <<>>
                  /\ uploads' = uploadCatch(uploads, x.upload, out)
  /\ UNCHANGED <<tree, destination>>

UploadNext ==
  \/ Upload /\ UNCHANGED <<sessionVars, policyVars, downloadVars, laterVars>>
  \/ \E fault \in BOOLEAN : MkdirSettle(fault) /\ UNCHANGED <<sessionVars, policyVars, downloadVars, laterVars>>
  \/ \E fault \in BOOLEAN : PutFileSettle(fault) /\ UNCHANGED <<sessionVars, policyVars, downloadVars, laterVars>>

SpecUpload == InitUpload /\ [][UploadNext]_vars

(* ------------------------------------------------------------------ *)
(* Download: commands.downloadProject                                  *)
(* ------------------------------------------------------------------ *)
File(p) == [filename |-> p, isDir |-> FALSE]
Dir(p) == [filename |-> p, isDir |-> TRUE]

\* what the board may list: nothing; one file; a file of a board whose root
\* is not /flash; a folder with a file, then a file; files listed before the
\* folder of one of them; a folder with two files; folders two deep
Listings ==
  {<<>>,
   <<File(<<"", "flash", "main.py">>)>>,
   <<File(<<"", "main.py">>)>>,
   <<Dir(<<"", "flash", "lib">>), File(<<"", "flash", "lib", "x.py">>),
     File(<<"", "flash", "lib", "y.py">>), File(<<"", "flash", "main.py">>)>>,
   <<Dir(<<"", "flash", "lib">>), File(<<"", "flash", "lib", "x.py">>),
     File(<<"", "flash", "main.py">>)>>,
   <<File(<<"", "flash", "main.py">>), File(<<"", "flash", "lib", "x.py">>),
     Dir(<<"", "flash", "lib">>)>>,
   <<Dir(<<"", "flash", "a">>), Dir(<<"", "flash", "a", "b">>),
     File(<<"", "flash", "a", "b", "c.py">>), File(<<"", "flash", "boot.py">>)>>}

\* fad.filename.replace(/^\/flash/, "")
StripFlash(p) ==
  IF Len(p) >= 2 /\ p[1] = "" /\ p[2] = "flash"
    THEN <<"">> \o SubSeq(p, 3, Len(p))
    ELSE p

\* destination: treeItem.project.folder + fad.filename.replace(/^\/flash/, "")
Destination(fad) == Folder \o Tail(StripFlash(fad.filename))

\* filesAndDirs.filter((f) => !f.isDir), filesAndDirs.filter((f) => f.isDir)
Files(l) == SelectSeq(l, LAMBDA f : ~f.isDir)
Dirs(l) == SelectSeq(l, LAMBDA f : f.isDir)

\* mkdirSync(path, { recursive: true }): the directory and those above it
RECURSIVE WithParents(_)
WithParents(p) == IF p = Root THEN {p} ELSE {p} \cup WithParents(dirname(p))

\* dirs.forEach((dir) => mkdirSync(dir.destination, { recursive: true }))
mkdirAll(l) ==
  localDirs \cup UNION {WithParents(Destination(Dirs(l)[i])) : i \in 1..Len(Dirs(l))}

\* waiting for every promise to settle, whatever its outcome
promiseAllSettled(ws) ==
  IF \A k \in 1..Len(ws) : ws[k] \in {"resolved", "rejected"} THEN "resolved"
  ELSE "pending"

\* a Promise.all that waits for nothing
promiseAllUnawaited(ws) == "resolved"

\* Promise.all(writePromises): rejected with the first rejection, resolved
\* once every promise is
promiseAll(ws) ==
  IF \E k \in 1..Len(ws) : ws[k] = "rejected" THEN "rejected"
  ELSE IF \A k \in 1..Len(ws) : ws[k] = "resolved" THEN "resolved"
  ELSE "pending"

\* `await Promise.all(writePromises)` is reached: the call settles with it,
\* or waits
awaitWrites(ws) ==
  LET all == promiseAll(ws)
  IN download' = IF all = "pending" THEN [pc |-> "writing", result |-> "none"]
                                    ELSE [pc |-> "done", result |-> all]

\* the loop over files, at file k: getFile is called, or the loop is over
fetchFrom(k, gs, ws) ==
  /\ writes' = ws
  /\ IF k <= Len(gs)
       THEN /\ gets' = [gs EXCEPT ![k] = "pending"]
            /\ download' = [pc |-> "fetching", result |-> "none"]
       ELSE /\ gets' = gs
            /\ awaitWrites(ws)

InitDownload ==
  /\ QuietSession
  /\ NoUpload
  /\ NoLater
  /\ listing \in Listings
  /\ download = [pc |-> "idle", result |-> "none"]
  /\ gets = <<>>
  /\ writes = <<>>
  /\ localDirs = {Root, Folder}

\* commands.downloadProject(treeItem), up to `await ...listFiles(...)`
DownloadProject ==
  /\ download.pc = "idle"
  /\ download' = [pc |-> "listing", result |-> "none"]
  /\ UNCHANGED <<listing, gets, writes, localDirs>>

\* listFiles settles: the local directories are made, getFile of the first
\* file is called (mkdirOk: no mkdirSync throws)
ListSettle(outcome, mkdirOk) ==
  /\ download.pc = "listing"
  /\ mkdirOk \/ (outcome = "resolved" /\ Dirs(listing) # <<>>)
  /\ IF outcome = "resolved" /\ mkdirOk
       THEN /\ localDirs' = mkdirAll(listing)
            /\ fetchFrom(1, [k \in 1..Len(Files(listing)) |-> "none"],
                            [k \in 1..Len(Files(listing)) |-> "none"])
       ELSE /\ download' = [pc |-> "done", result |-> "rejected"]
            /\ UNCHANGED <<gets, writes, localDirs>>
  /\ UNCHANGED listing

\* getFile of file k settles: writeFile is called with the contents and the
\* loop goes on, or the call is rejected
GetSettle(k, outcome) ==
  /\ download.pc = "fetching"
  /\ gets[k] = "pending"
  /\ IF outcome = "resolved"
       THEN fetchFrom(k + 1, [gets EXCEPT ![k] = "resolved"], [writes EXCEPT ![k] = "pending"])
       ELSE /\ gets' = [gets EXCEPT ![k] = "rejected"]
            /\ download' = [pc |-> "done", result |-> "rejected"]
            /\ UNCHANGED writes
  /\ UNCHANGED <<listing, localDirs>>

\* writeFile of file k settles; it fails when the file's directory is missing
WriteSettle(k, outcome) ==
  /\ writes[k] = "pending"
  /\ outcome = "resolved" => dirname(Destination(Files(listing)[k])) \in localDirs
  /\ writes' = [writes EXCEPT ![k] = outcome]
  /\ IF download.pc = "writing"
       THEN awaitWrites(writes')
       ELSE UNCHANGED download
  /\ UNCHANGED <<listing, gets, localDirs>>

DownloadNext ==
  \/ DownloadProject /\ UNCHANGED <<sessionVars, policyVars, uploadVars, laterVars>>
  \/ \E outcome \in Settled, mkdirOk \in BOOLEAN :
       ListSettle(outcome, mkdirOk) /\ UNCHANGED <<sessionVars, policyVars, uploadVars, laterVars>>
  \/ \E k \in 1..Len(gets), outcome \in Settled :
       GetSettle(k, outcome) /\ UNCHANGED <<sessionVars, policyVars, uploadVars, laterVars>>
  \/ \E k \in 1..Len(writes), outcome \in Settled :
       WriteSettle(k, outcome) /\ UNCHANGED <<sessionVars, policyVars, uploadVars, laterVars>>

SpecDownload == InitDownload /\ [][DownloadNext]_vars

(* ------------------------------------------------------------------ *)
(* Dev mode: the watcher of a project and its device managers. The     *)
(* devtools are installed by the first upload of a session             *)
(* ------------------------------------------------------------------ *)
\* what the board's terminal shows
DevtoolsEvt == "uploading Pymakr devtools"
PatchEvt == "patching boot.dev"
RestartEvt == "changed. Restarting..."
PromptEvt == ">>>"
\* what the watcher reports
UploadFailedEvt == "upload failed"
RestartTimeoutEvt == "RestartTimeout"

\* a restart shows the prompt on soft boot and again on the script's reload
ReadyPrompts == 2

\* one manager whatever the project's devices
createManagersOne(n) == <<[installed |-> FALSE]>>

\* a DeviceManager for each device associated with the project
createManagers(n) == [i \in 1..n |-> [installed |-> FALSE]]

\* waiting for the first prompt only
restartDoneFirstPrompt(p) == p >= 1

\* the board is ready once the prompt has been seen twice
restartDone(p) == p >= ReadyPrompts

\* a failed upload ending the watch
afterUploadFailureIdle == "Idle"

\* where a failed upload leaves the watcher
afterUploadFailure == "Watching"

\* the devtools are on the boards of this session
Installed == \A i \in 1..Len(deviceManagers) : deviceManagers[i].installed

LastEvt == IF boardLog = <<>> THEN "" ELSE boardLog[Len(boardLog)]

InitDevMode ==
  /\ QuietSession
  /\ NoUpload
  /\ NoDownload
  /\ projectDevices \in 0..MaxDevices
  /\ wState = "Idle"
  /\ active = FALSE
  /\ deviceManagers = <<>>
  /\ boardLog = <<>>
  /\ prompts = 0
  /\ pendingSave = FALSE
  /\ saves = 0
  /\ NoStore
  /\ NoWaitFor
  /\ NoUtil

\* commands.startDevMode({ project }): start(project) begins
StartDevMode ==
  /\ wState = "Idle"
  /\ wState' = "Installing"
  /\ deviceManagers' = createManagers(projectDevices)
  /\ boardLog' = <<>>
  /\ prompts' = 0
  /\ pendingSave' = FALSE
  /\ UNCHANGED <<projectDevices, active, saves>>

\* start(project) completes
StartDone ==
  /\ wState = "Installing"
  /\ wState' = "Watching"
  /\ active' = TRUE
  /\ UNCHANGED <<projectDevices, deviceManagers, boardLog, prompts, pendingSave, saves>>

\* a file of the project is saved: the watcher starts an upload, or notes
\* the save while it is busy
Save ==
  /\ saves < MaxSaves
  /\ wState \in {"Watching", "Uploading", "Restarting"}
  /\ saves' = saves + 1
  /\ IF wState = "Watching"
       THEN /\ wState' = IF deviceManagers = <<>> THEN "Watching" ELSE "Uploading"
            /\ UNCHANGED pendingSave
       ELSE /\ pendingSave' = TRUE
            /\ UNCHANGED wState
  /\ UNCHANGED <<projectDevices, active, deviceManagers, boardLog, prompts>>

\* the save noted while busy is taken up
ResumeSave ==
  /\ wState = "Watching"
  /\ pendingSave
  /\ pendingSave' = FALSE
  /\ wState' = IF deviceManagers = <<>> THEN "Watching" ELSE "Uploading"
  /\ UNCHANGED <<projectDevices, active, deviceManagers, boardLog, prompts, saves>>

\* the first upload of the session sends the devtools
UploadDevtools ==
  /\ wState = "Uploading"
  /\ ~Installed
  /\ LastEvt # DevtoolsEvt
  /\ boardLog' = Append(boardLog, DevtoolsEvt)
  /\ UNCHANGED <<projectDevices, wState, active, deviceManagers, prompts, pendingSave, saves>>

\* and patches the board's startup script
PatchBoot ==
  /\ wState = "Uploading"
  /\ ~Installed
  /\ LastEvt = DevtoolsEvt
  /\ boardLog' = Append(boardLog, PatchEvt)
  /\ deviceManagers' = [i \in 1..Len(deviceManagers) |-> [installed |-> TRUE]]
  /\ UNCHANGED <<projectDevices, wState, active, prompts, pendingSave, saves>>

\* the changed files are uploaded: the board is restarted, or the failure
\* is reported
UploadChanged(ok) ==
  /\ wState = "Uploading"
  /\ Installed
  /\ IF ok
       THEN /\ boardLog' = Append(boardLog, RestartEvt)
            /\ wState' = "Restarting"
       ELSE /\ boardLog' = Append(boardLog, UploadFailedEvt)
            /\ wState' = afterUploadFailure
  /\ prompts' = 0
  /\ UNCHANGED <<projectDevices, active, deviceManagers, pendingSave, saves>>

\* the restarting board shows its prompt
Prompt ==
  /\ wState = "Restarting"
  /\ boardLog' = Append(boardLog, PromptEvt)
  /\ prompts' = prompts + 1
  /\ wState' = IF restartDone(prompts + 1) THEN "Watching" ELSE "Restarting"
  /\ UNCHANGED <<projectDevices, active, deviceManagers, pendingSave, saves>>

\* the board does not become ready within the allowance
RestartTimeout ==
  /\ wState = "Restarting"
  /\ boardLog' = Append(boardLog, RestartTimeoutEvt)
  /\ wState' = "Watching"
  /\ UNCHANGED <<projectDevices, active, deviceManagers, prompts, pendingSave, saves>>

\* stop()
StopDevMode ==
  /\ wState # "Idle"
  /\ wState' = "Idle"
  /\ active' = FALSE
  /\ pendingSave' = FALSE
  /\ deviceManagers' = <<>>
  /\ UNCHANGED <<projectDevices, boardLog, prompts, saves>>

DevModeNext ==
  \/ StartDevMode /\ UNCHANGED <<sessionVars, policyVars, uploadVars, downloadVars, storeVars, waitForVars, utilVars>>
  \/ StartDone /\ UNCHANGED <<sessionVars, policyVars, uploadVars, downloadVars, storeVars, waitForVars, utilVars>>
  \/ Save /\ UNCHANGED <<sessionVars, policyVars, uploadVars, downloadVars, storeVars, waitForVars, utilVars>>
  \/ ResumeSave /\ UNCHANGED <<sessionVars, policyVars, uploadVars, downloadVars, storeVars, waitForVars, utilVars>>
  \/ UploadDevtools /\ UNCHANGED <<sessionVars, policyVars, uploadVars, downloadVars, storeVars, waitForVars, utilVars>>
  \/ PatchBoot /\ UNCHANGED <<sessionVars, policyVars, uploadVars, downloadVars, storeVars, waitForVars, utilVars>>
  \/ \E ok \in BOOLEAN :
       UploadChanged(ok) /\ UNCHANGED <<sessionVars, policyVars, uploadVars, downloadVars, storeVars, waitForVars, utilVars>>
  \/ Prompt /\ UNCHANGED <<sessionVars, policyVars, uploadVars, downloadVars, storeVars, waitForVars, utilVars>>
  \/ RestartTimeout /\ UNCHANGED <<sessionVars, policyVars, uploadVars, downloadVars, storeVars, waitForVars, utilVars>>
  \/ StopDevMode /\ UNCHANGED <<sessionVars, policyVars, uploadVars, downloadVars, storeVars, waitForVars, utilVars>>

SpecDevMode == InitDevMode /\ [][DevModeNext]_vars

(* ------------------------------------------------------------------ *)
(* The store of a device: writable(this), and the Device constructor's *)
(* use of it                                                           *)
(* ------------------------------------------------------------------ *)
\* subscribing before the initial updateConnection()
constructorSubscribeFirst == <<"subscribe", "updateConnection">>

\* the last two statements of the Device constructor
constructor == <<"updateConnection", "subscribe">>

\* set(v): every subscriber is called with v, in subscription order
notify(subs, val) ==
  [i \in 1..Len(subs) |-> [id |-> subs[i].id, set |-> Len(storeSets) + 1, val |-> val]]

\* set(v)
set(val) ==
  /\ storeSets' = Append(storeSets, val)
  /\ delivered' = delivered \o notify(storeSubs, val)

\* subscribe(fn): fn joins the subscribers and is not called
subscribe ==
  /\ subCount' = subCount + 1
  /\ storeSubs' = Append(storeSubs, [id |-> subCount + 1, since |-> Len(storeSets)])

Remove(seq, i) == [j \in 1..(Len(seq) - 1) |-> IF j < i THEN seq[j] ELSE seq[j + 1]]

InitStore ==
  /\ QuietSession
  /\ NoUpload
  /\ NoDownload
  /\ NoDevMode
  /\ ctorPc = 1
  /\ storeSubs = <<>>
  /\ subCount = 0
  /\ storeSets = <<>>
  /\ delivered = <<>>
  /\ NoWaitFor
  /\ NoUtil

\* new Device(): this.updateConnection() of the device that is not online
\* publishes the change; subscribe(() => this.onChanged())
Construct ==
  /\ ctorPc \in 1..2
  /\ ctorPc' = ctorPc + 1
  /\ IF constructor[ctorPc] = "updateConnection"
       THEN set(FALSE) /\ UNCHANGED <<storeSubs, subCount>>
       ELSE subscribe /\ UNCHANGED <<storeSets, delivered>>

\* device.subscribe(fn) by a collaborator
Subscribe ==
  /\ ctorPc = 3
  /\ subCount <= MaxSubscribes
  /\ subscribe
  /\ UNCHANGED <<ctorPc, storeSets, delivered>>

\* the unsubscribe function that subscribe returned
Unsubscribe(i) ==
  /\ ctorPc = 3
  /\ storeSubs[i].id # 1
  /\ storeSubs' = Remove(storeSubs, i)
  /\ UNCHANGED <<ctorPc, subCount, storeSets, delivered>>

\* device.changed() with the device's connected field as it is then
Changed(conn) ==
  /\ ctorPc = 3
  /\ Len(storeSets) <= MaxSets
  /\ set(conn)
  /\ UNCHANGED <<ctorPc, storeSubs, subCount>>

StoreNext ==
  \/ Construct /\ UNCHANGED <<sessionVars, policyVars, uploadVars, downloadVars, watcherVars, waitForVars, utilVars>>
  \/ Subscribe /\ UNCHANGED <<sessionVars, policyVars, uploadVars, downloadVars, watcherVars, waitForVars, utilVars>>
  \/ \E i \in 1..Len(storeSubs) :
       Unsubscribe(i) /\ UNCHANGED <<sessionVars, policyVars, uploadVars, downloadVars, watcherVars, waitForVars, utilVars>>
  \/ \E conn \in BOOLEAN :
       Changed(conn) /\ UNCHANGED <<sessionVars, policyVars, uploadVars, downloadVars, watcherVars, waitForVars, utilVars>>

SpecStore == InitStore /\ [][StoreNext]_vars

(* ------------------------------------------------------------------ *)
(* waitFor(primaryPromise, timeAllowance, fallbackActionOrErr). One    *)
(* step is one task of the event loop with the promise reactions it    *)
(* queues                                                              *)
(* ------------------------------------------------------------------ *)
\* timeAllowance: a number of milliseconds, or a promise
AllowanceKinds == {"number", "promise"}

\* fallbackActionOrErr: a string, an Error, or a function that returns a
\* value, throws, or returns a promise
FallbackKinds == {"string", "error", "returns", "throws", "async"}

IsFunction(f) == f \in {"returns", "throws", "async"}

Outcome(status, value) == [status |-> status, value |-> value]

\* what the primary settles with
PrimaryOutcome(status) ==
  Outcome(status, IF status = "resolved" THEN "primary value" ELSE "primary error")

\* what the promise returned by the fallback function settles with
ReturnedOutcome(status) ==
  Outcome(status, IF status = "resolved" THEN "fallback value" ELSE "fallback error")

\* Promise.race([primaryPromise, fallbackPromise]): the first to settle
race(result, settled) == IF result = Pending THEN settled ELSE result

\* `action`: () => rej(fallbackActionOrErr), or the async function that
\* awaits fallbackActionOrErr() and passes its outcome on. Yields the
\* state of fallbackPromise after the reactions of this step
action(f) ==
  CASE f \in {"string", "error"} -> Outcome("rejected", f)
    [] f = "returns" -> ReturnedOutcome("resolved")
    [] f = "throws" -> ReturnedOutcome("rejected")
    [] f = "async" -> Pending

\* primaryPromise.then(() => clearTimeout(timeout)): on fulfilment only
clearsTimeout(status) == status = "resolved"

\* `action` runs: called by the timer, or by the allowance's finally
\* reaction while `resolved` is false
RunAction ==
  /\ wfActions' = wfActions + 1
  /\ wfCalls' = IF IsFunction(wfFallback) THEN wfCalls + 1 ELSE wfCalls
  /\ wfReturned' = IF wfFallback = "async" THEN "pending" ELSE wfReturned
  /\ wfFallbackPromise' = action(wfFallback)
  /\ wfResult' = race(wfResult, action(wfFallback))

InitWaitFor ==
  /\ QuietSession
  /\ NoUpload
  /\ NoDownload
  /\ NoDevMode
  /\ NoStore
  /\ NoUtil
  /\ wfPc = "start"
  /\ wfAllowance \in AllowanceKinds
  /\ wfFallback \in FallbackKinds
  /\ wfPrimary \in {Pending, PrimaryOutcome("resolved"), PrimaryOutcome("rejected")}
  /\ wfTime \in IF wfAllowance = "number" THEN {"none"} ELSE {"pending", "settled"}
  /\ wfResolved = FALSE
  /\ wfCalls = 0
  /\ wfActions = 0
  /\ wfReturned = "none"
  /\ wfFallbackPromise = Pending
  /\ wfResult = Pending
  /\ wfFirst = "none"

\* the call: the executor arms the timer or registers the two finally
\* reactions, Promise.race registers its own; the reactions of promises
\* that are settled already run in registration order
WaitFor ==
  /\ wfPc = "start"
  /\ wfPc' = "called"
  /\ wfFirst' = IF wfPrimary # Pending /\ wfTime = "settled" THEN "both"
                ELSE IF wfPrimary # Pending THEN "primary"
                ELSE IF wfTime = "settled" THEN "allowance" ELSE "none"
  /\ IF wfAllowance = "number"
       THEN /\ wfTime' = IF wfPrimary # Pending /\ clearsTimeout(wfPrimary.status)
                           THEN "cleared" ELSE "armed"
            /\ wfResult' = wfPrimary
            /\ UNCHANGED <<wfResolved, wfCalls, wfActions, wfReturned, wfFallbackPromise>>
       ELSE /\ wfResolved' = (wfPrimary # Pending)
            /\ UNCHANGED wfTime
            /\ IF wfTime = "settled" /\ wfPrimary = Pending
                 THEN RunAction
                 ELSE /\ wfResult' = wfPrimary
                      /\ UNCHANGED <<wfCalls, wfActions, wfReturned, wfFallbackPromise>>
  /\ UNCHANGED <<wfAllowance, wfFallback, wfPrimary>>

\* the primary settles
PrimarySettle(status) ==
  /\ wfPc = "called"
  /\ wfPrimary = Pending
  /\ wfPrimary' = PrimaryOutcome(status)
  /\ wfFirst' = IF wfFirst = "none" THEN "primary" ELSE wfFirst
  /\ wfResult' = race(wfResult, PrimaryOutcome(status))
  /\ IF wfAllowance = "number"
       THEN /\ wfTime' = IF wfTime = "armed" /\ clearsTimeout(status) THEN "cleared" ELSE wfTime
            /\ UNCHANGED wfResolved
       ELSE /\ wfResolved' = TRUE
            /\ UNCHANGED wfTime
  /\ UNCHANGED <<wfPc, wfAllowance, wfFallback, wfCalls, wfActions, wfReturned,
                 wfFallbackPromise>>

\* the timer fires
TimeoutFires ==
  /\ wfPc = "called"
  /\ wfAllowance = "number"
  /\ wfTime = "armed"
  /\ wfTime' = "fired"
  /\ wfFirst' = IF wfFirst = "none" THEN "allowance" ELSE wfFirst
  /\ RunAction
  /\ UNCHANGED <<wfPc, wfAllowance, wfFallback, wfPrimary, wfResolved>>

\* the allowance promise settles: timeAllowance.finally(() => !resolved && action())
AllowanceSettles ==
  /\ wfPc = "called"
  /\ wfAllowance = "promise"
  /\ wfTime = "pending"
  /\ wfTime' = "settled"
  /\ wfFirst' = IF wfFirst = "none" THEN "allowance" ELSE wfFirst
  /\ IF ~wfResolved
       THEN RunAction
       ELSE UNCHANGED <<wfCalls, wfActions, wfReturned, wfFallbackPromise, wfResult>>
  /\ UNCHANGED <<wfPc, wfAllowance, wfFallback, wfPrimary, wfResolved>>

\* the promise that the fallback function returned settles: res(result),
\* or rej(err) from the catch block
ReturnedSettles(status) ==
  /\ wfReturned = "pending"
  /\ wfReturned' = status
  /\ wfFallbackPromise' = ReturnedOutcome(status)
  /\ wfResult' = race(wfResult, ReturnedOutcome(status))
  /\ UNCHANGED <<wfPc, wfAllowance, wfFallback, wfPrimary, wfTime, wfResolved, wfCalls,
                 wfActions, wfFirst>>

WaitForNext ==
  \/ WaitFor /\ UNCHANGED <<sessionVars, policyVars, uploadVars, downloadVars, watcherVars, storeVars, utilVars>>
  \/ \E status \in Settled :
       PrimarySettle(status)
         /\ UNCHANGED <<sessionVars, policyVars, uploadVars, downloadVars, watcherVars, storeVars, utilVars>>
  \/ TimeoutFires /\ UNCHANGED <<sessionVars, policyVars, uploadVars, downloadVars, watcherVars, storeVars, utilVars>>
  \/ AllowanceSettles
       /\ UNCHANGED <<sessionVars, policyVars, uploadVars, downloadVars, watcherVars, storeVars, utilVars>>
  \/ \E status \in Settled :
       ReturnedSettles(status)
         /\ UNCHANGED <<sessionVars, policyVars, uploadVars, downloadVars, watcherVars, storeVars, utilVars>>

SpecWaitFor == InitWaitFor /\ [][WaitForNext]_vars

(* ------------------------------------------------------------------ *)
(* createQueue on its own: callers that await queue() and call imDone  *)
(* ------------------------------------------------------------------ *)
InitQueue ==
  /\ QuietSession
  /\ NoUpload
  /\ NoDownload
  /\ NoLater

\* const imDone = await queue()
QueueUse ==
  /\ Len(ops) < MaxQueued
  /\ LET o == Len(ops) + 1
         r == QueueCall(queue, isRunning, o)
     IN /\ ops' = Grant(Append(ops, [kind |-> "caller", status |-> "queued", call |-> 0]),
                        r.granted)
        /\ queue' = r.queue
        /\ isRunning' = r.isRunning
  /\ UNCHANGED <<devVars, wake, calls, timers>>

\* await anAsyncCall(); imDone(): the holder's own call settles and the
\* holder resolves the promise runQueue awaits
ImDone(o, outcome) ==
  /\ ops[o].status = "running"
  /\ ops' = [ops EXCEPT ![o].status = outcome]
  /\ wake' = TRUE
  /\ UNCHANGED <<devVars, queue, isRunning, calls, timers>>

\* the holder's turn, from the grant to imDone
Holder(o) ==
  /\ o <= Len(ops)
  /\ \/ StartOp(o)
     \/ \E outcome \in Settled : ImDone(o, outcome)
  /\ UNCHANGED <<policyVars, syncVars>>

QueueNext ==
  \/ QueueUse /\ UNCHANGED <<policyVars, syncVars>>
  \/ \E o \in 1..MaxQueued : Holder(o)
  \/ RunnerResume /\ UNCHANGED <<policyVars, syncVars>>

\* every holder calls imDone in the end, and the event loop runs the
\* continuation of runQueue's await
SpecQueue ==
  /\ InitQueue
  /\ [][QueueNext]_vars
  /\ WF_vars(RunnerResume /\ UNCHANGED <<policyVars, syncVars>>)
  /\ \A o \in 1..MaxQueued : WF_vars(Holder(o))

(* ------------------------------------------------------------------ *)
(* createThrottledFunction(fn, time)                                   *)
(* ------------------------------------------------------------------ *)
\* the parameters a call can carry
Params == {"a", "b"}

\* what invocation n of fn settles with
InvocationOutcome(status, n) == Outcome(status, n)

\* a wrapper that arms a timer on every call
startsTimerAlways(running) == TRUE

\* if (!isRunning): only a call that finds no invocation under way arms a timer
startsTimer(running) == ~running

\* subs.forEach((sub) => sub.resolve(result)) or sub.reject(err): every call
\* in subs gets the outcome
settleSubs(callsV, subs, outcome) ==
  [c \in 1..Len(callsV) |->
     IF \E i \in 1..Len(subs) : subs[i] = c
       THEN [callsV[c] EXCEPT !.result = race(callsV[c].result, outcome)]
       ELSE callsV[c]]

\* the earliest call that has not settled, or the call about to be made
FirstPending ==
  IF \E c \in 1..Len(thCalls) : thCalls[c].result = Pending
    THEN CHOOSE c \in 1..Len(thCalls) :
           /\ thCalls[c].result = Pending
           /\ \A d \in 1..(c - 1) : thCalls[d].result # Pending
    ELSE Len(thCalls) + 1

InitThrottle ==
  /\ QuietSession
  /\ NoUpload
  /\ NoDownload
  /\ NoDevMode
  /\ NoStore
  /\ NoWaitFor
  /\ NoThrottle
  /\ NoResolveAll
  /\ NoOnce

\* fnWrapper(...params): subs.push({ resolve, reject }), and the timer
Throttled(params) ==
  /\ Len(thCalls) < MaxThrottled
  /\ LET c == Len(thCalls) + 1
     IN /\ thCalls' = Append(thCalls, [params |-> params, result |-> Pending,
                                       first |-> FirstPending])
        /\ thSubs' = Append(thSubs, c)
        /\ IF startsTimer(thRunning)
             THEN thRunning' = TRUE /\ thTimers' = thTimers \cup {c}
             ELSE UNCHANGED <<thRunning, thTimers>>
  /\ UNCHANGED thInvocations

\* the timer of call c fires: fn(...params) is called with the parameters of
\* call c and returns a promise, or throws and the catch block runs at once
ThrottleTimer(c, throws) ==
  /\ c \in thTimers
  /\ thTimers' = thTimers \ {c}
  /\ LET n == Len(thInvocations) + 1
         inv == [by |-> c, params |-> thCalls[c].params, outcome |-> Pending]
     IN IF throws
          THEN /\ thInvocations' =
                    Append(thInvocations, [inv EXCEPT !.outcome = InvocationOutcome("rejected", n)])
               /\ thCalls' = settleSubs(thCalls, thSubs, InvocationOutcome("rejected", n))
               /\ thSubs' = <<>>
               /\ thRunning' = FALSE
          ELSE /\ thInvocations' = Append(thInvocations, inv)
               /\ UNCHANGED <<thCalls, thSubs, thRunning>>

\* the promise fn returned settles: the subs get the outcome, subs.splice(0),
\* isRunning = false
ThrottleSettle(n, status) ==
  /\ n <= Len(thInvocations)
  /\ thInvocations[n].outcome = Pending
  /\ thInvocations' = [thInvocations EXCEPT ![n].outcome = InvocationOutcome(status, n)]
  /\ thCalls' = settleSubs(thCalls, thSubs, InvocationOutcome(status, n))
  /\ thSubs' = <<>>
  /\ thRunning' = FALSE
  /\ UNCHANGED thTimers

\* the event loop's part: timers fire and fn's promise settles
ThrottleRuns ==
  /\ \/ \E c \in 1..MaxThrottled, throws \in BOOLEAN : ThrottleTimer(c, throws)
     \/ \E n \in 1..MaxThrottled, status \in Settled : ThrottleSettle(n, status)
  /\ UNCHANGED <<sessionVars, policyVars, uploadVars, downloadVars, watcherVars, storeVars,
                 waitForVars, resolveAllVars, onceVars>>

ThrottleNext ==
  \/ \E params \in Params :
       Throttled(params)
         /\ UNCHANGED <<sessionVars, policyVars, uploadVars, downloadVars, watcherVars,
                        storeVars, waitForVars, resolveAllVars, onceVars>>
  \/ ThrottleRuns

\* an armed timer fires, and the invocation of fn settles
SpecThrottle ==
  /\ InitThrottle
  /\ [][ThrottleNext]_vars
  /\ WF_vars(ThrottleRuns)

(* ------------------------------------------------------------------ *)
(* onResolveAll(callback)                                              *)
(* ------------------------------------------------------------------ *)
\* promisePyramid after push k: Promise.all([promisePyramid, promise]) is
\* rejected once one of the first k promises is, resolved once all of them are
Pyramid(pushes, k) ==
  IF \E i \in 1..k : pushes[i].status = "rejected" THEN "rejected"
  ELSE IF \A i \in 1..k : pushes[i].status = "resolved" THEN "resolved"
  ELSE "pending"

\* a push that calls the callback whoever holds the claim
claimedAlways(claimV, id) == TRUE

\* if (claim === id)
claimed(claimV, id) == claimV = id

\* the pushes whose `await promisePyramid` is over run on, in the order of
\* their pushes: the callback is called by the push that holds the claim and
\* whose pyramid resolved; a rejected pyramid makes the await throw
RECURSIVE RunPushes(_, _, _, _, _)
RunPushes(pushes, waiting, claimV, callbacks, k) ==
  IF k > Len(pushes) THEN callbacks
  ELSE RunPushes(pushes, waiting, claimV,
         IF k \in waiting /\ Pyramid(pushes, k) = "resolved" /\ claimed(claimV, k)
           THEN Append(callbacks,
                       [by |-> k, pushed |-> Len(pushes),
                        allResolved |-> \A i \in 1..Len(pushes) : pushes[i].status = "resolved"])
           ELSE callbacks,
         k + 1)

StillWaiting(pushes, waiting) == {k \in waiting : Pyramid(pushes, k) = "pending"}

InitResolveAll ==
  /\ QuietSession
  /\ NoUpload
  /\ NoDownload
  /\ NoDevMode
  /\ NoStore
  /\ NoWaitFor
  /\ NoThrottle
  /\ NoResolveAll
  /\ NoOnce

\* push(promise), with a promise that is pending or settled already
Push(status) ==
  /\ Len(raPushes) < MaxPushes
  /\ LET id == Len(raPushes) + 1
         pushes == Append(raPushes,
                     [status |-> status,
                      joined |-> \E i \in 1..Len(raPushes) : raPushes[i].status = "pending"])
     IN /\ raPushes' = pushes
        /\ raClaim' = id
        /\ raCallbacks' = RunPushes(pushes, raWaiting \cup {id}, id, raCallbacks, 1)
        /\ raWaiting' = StillWaiting(pushes, raWaiting \cup {id})

\* a pushed promise settles
PushedSettles(i, status) ==
  /\ raPushes[i].status = "pending"
  /\ LET pushes == [raPushes EXCEPT ![i].status = status]
     IN /\ raPushes' = pushes
        /\ raCallbacks' = RunPushes(pushes, raWaiting, raClaim, raCallbacks, 1)
        /\ raWaiting' = StillWaiting(pushes, raWaiting)
  /\ UNCHANGED raClaim

ResolveAllNext ==
  \/ \E status \in {"pending", "resolved", "rejected"} :
       Push(status)
         /\ UNCHANGED <<sessionVars, policyVars, uploadVars, downloadVars, watcherVars,
                        storeVars, waitForVars, throttleVars, onceVars>>
  \/ \E i \in 1..Len(raPushes), status \in Settled :
       PushedSettles(i, status)
         /\ UNCHANGED <<sessionVars, policyVars, uploadVars, downloadVars, watcherVars,
                        storeVars, waitForVars, throttleVars, onceVars>>

SpecResolveAll == InitResolveAll /\ [][ResolveAllNext]_vars

(* ------------------------------------------------------------------ *)
(* once(fn, context)                                                   *)
(* ------------------------------------------------------------------ *)
InitOnce ==
  /\ QuietSession
  /\ NoUpload
  /\ NoDownload
  /\ NoDevMode
  /\ NoStore
  /\ NoWaitFor
  /\ NoThrottle
  /\ NoResolveAll
  /\ NoOnce

\* the wrapper is called, from outside or by fn while it runs: if (!expired)
\* fn is entered; else expired = true; return result
OnceCall ==
  /\ onCalls < MaxOnceCalls
  /\ onCalls' = onCalls + 1
  /\ IF ~onExpired
       THEN /\ onFrames' = Append(onFrames, onCalls + 1)
            /\ onInvocations' = onInvocations + 1
            /\ UNCHANGED <<onExpired, onResult, onReturns>>
       ELSE /\ onReturns' = Append(onReturns, [call |-> onCalls + 1, value |-> onResult])
            /\ UNCHANGED <<onExpired, onResult, onFrames, onInvocations>>

\* the innermost fn returns: result = fn(...args); expired = true; return result
FnReturns ==
  /\ onFrames # <<>>
  /\ LET c == onFrames[Len(onFrames)]
     IN /\ onResult' = c
        /\ onExpired' = TRUE
        /\ onReturns' = Append(onReturns, [call |-> c, value |-> c])
  /\ onFrames' = SubSeq(onFrames, 1, Len(onFrames) - 1)
  /\ UNCHANGED <<onCalls, onInvocations>>

\* the innermost fn throws: the assignment and `expired = true` are skipped
\* and the wrapper call throws
FnThrows ==
  /\ onFrames # <<>>
  /\ onReturns' = Append(onReturns, [call |-> onFrames[Len(onFrames)], value |-> "threw"])
  /\ onFrames' = SubSeq(onFrames, 1, Len(onFrames) - 1)
  /\ UNCHANGED <<onExpired, onResult, onCalls, onInvocations>>

OnceNext ==
  \/ OnceCall
       /\ UNCHANGED <<sessionVars, policyVars, uploadVars, downloadVars, watcherVars,
                      storeVars, waitForVars, throttleVars, resolveAllVars>>
  \/ FnReturns
       /\ UNCHANGED <<sessionVars, policyVars, uploadVars, downloadVars, watcherVars,
                      storeVars, waitForVars, throttleVars, resolveAllVars>>
  \/ FnThrows
       /\ UNCHANGED <<sessionVars, policyVars, uploadVars, downloadVars, watcherVars,
                      storeVars, waitForVars, throttleVars, resolveAllVars>>

SpecOnce == InitOnce /\ [][OnceNext]_vars

(* ------------------------------------------------------------------ *)
(* Properties                                                          *)
(* ------------------------------------------------------------------ *)
Calls == 1..Len(calls)
Ops == 1..Len(ops)
Serialized(o) == ops[o].kind \notin Exceptions
Started(o) == ops[o].status \in {"granted", "running"}
ConnectAttempts ==
  {c \in Calls : /\ calls[c].kind = "connect"
                 /\ calls[c].result = "pending"
                 /\ calls[c].pc \in {"waitConnect", "waitInfo"}}

\* C1: of two commands issued in the order A, B through the serialized
\* adapter, neither in the bypass set, B has its turn (and its transport call)
\* only once A's transport call has settled; so at most one such operation
\* is in flight at any time
C1_Ordering ==
  /\ Cardinality({o \in Ops : Serialized(o) /\ Started(o)}) <= 1
  /\ \A a, b \in Ops :
       (a < b /\ Serialized(a) /\ Serialized(b) /\ ops[b].status # "queued")
         => ops[a].status \in Settled

\* B was issued while A was in flight and waits for its turn
C1_Witness ==
  \E a, b \in Ops :
    /\ a < b /\ Serialized(a) /\ Serialized(b)
    /\ ops[a].status = "running"
    /\ ops[b].status = "queued"

\* C2: a call whose adapter operation is rejected by the transport (and that
\* was still waiting for it) is rejected with the transport's error, and the
\* queue keeps moving: a waiting entry always has the runner awake or an
\* operation in flight that will wake it
C2_FailureNotPoisoning ==
  /\ \A c \in Calls :
       (/\ calls[c].op # 0
        /\ ops[calls[c].op].status = "rejected"
        /\ calls[c].err \notin TimeoutMsgs)
         => (calls[c].result = "rejected" /\ calls[c].err = TransportError)
  /\ queue # <<>> =>
       (isRunning /\ (wake \/ \E o \in Ops : Serialized(o) /\ Started(o)))

\* command A failed, command B, queued behind it, ran and settled
C2_Witness ==
  \E a, b \in Ops :
    /\ a < b
    /\ ops[a].kind = "runScript" /\ ops[a].status = "rejected"
    /\ calls[ops[a].call].result = "rejected"
    /\ ops[b].kind = "runScript" /\ ops[b].status = "resolved"
    /\ calls[ops[b].call].result = "resolved"

\* C3: at no time are two connect attempts of the device in flight
C3_ConnectExclusive == Cardinality(ConnectAttempts) <= 1

\* C4: a connect() is rejected with the connect timeout only when its
\* allowance has expired, and then the session is Disconnected
C4_TimeoutDisconnected ==
  [][\A c \in Calls :
       (/\ calls[c].kind = "connect"
        /\ calls[c].result = "pending"
        /\ calls'[c].err = ConnectTimeoutMsg)
         => (/\ [op |-> calls[c].op, remaining |-> 0] \in timers
             /\ ~connected'
             /\ ~connecting')]_vars

\* C5: whenever a disconnect() settles, the session is Disconnected
C5_DisconnectAlways ==
  [][\A c \in Calls :
       (/\ calls[c].kind = "disconnect"
        /\ calls[c].result = "pending"
        /\ calls'[c].result # "pending")
         => ~connected']_vars

\* C6: a connect() whose transport connect has succeeded is not failed by the
\* board-metadata fetch, and the session stays Connected
C6_BoardInfoNonFatal ==
  [][\A c \in Calls :
       (/\ calls[c].kind = "connect"
        /\ calls[c].pc = "waitInfo"
        /\ calls'[c].pc = "done")
         => (calls'[c].result = "resolved" /\ connected' = connected)]_vars

\* C7: the connecting flag is true exactly while a connect attempt is in flight
C7_ConnectingFlag == connecting <=> (ConnectAttempts # {})

\* C8: a pending connect() always has something that will settle it: the
\* time allowance armed for the adapter operation it waits for
C8_ConnectSettles ==
  \A c \in Calls :
    (calls[c].kind = "connect" /\ calls[c].result = "pending")
      => \E t \in timers : t.op = calls[c].op

\* C9: a connect() issued after a timed-out one gets a fresh transport
\* attempt: it never fails with its transport connect still waiting behind
\* the unsettled transport operation of the timed-out attempt
C9_RetryStarts ==
  \A c1, c2 \in Calls :
    ~ (/\ calls[c1].kind = "connect" /\ calls[c1].err = ConnectTimeoutMsg
       /\ ops[calls[c1].op].status = "running"
       /\ calls[c2].kind = "connect" /\ calls[c2].retry
       /\ calls[c2].err = ConnectTimeoutMsg
       /\ ops[calls[c2].op].status = "queued")

\* C10: lostConnection becomes true only when a Connected session drops,
\* that is in a step taken while connected and offline
C10_LostOnlyOnDrop ==
  [][(lostConnection' /\ ~lostConnection) => (connected /\ ~online)]_vars

\* the policy in force: the device's own setting when it is set, else the
\* workspace-wide one
EffectivePolicy == IF devAutoConnect # "" THEN devAutoConnect ELSE globalAutoConnect

\* an explicit connect() or disconnect(), made while lostConnection was true
ExplicitWhileLost(c) ==
  /\ calls[c].kind \in {"connect", "disconnect"}
  /\ ~callNotes[c].auto
  /\ callNotes[c].lost

\* C11: an explicit connect() or disconnect() made while lostConnection was
\* true leaves lostConnection false when it settles, resolved or rejected
C11_ExplicitCallClearsLost ==
  [][\A c \in Calls :
       (/\ ExplicitWhileLost(c)
        /\ calls[c].result = "pending"
        /\ calls'[c].result # "pending")
         => ~lostConnection']_vars

\* C12: under the policy lastState, an updateConnection() of an online,
\* not-connected device calls connect() exactly once when the saved record
\* has connected = true, and not at all when it has connected = false or
\* when there is no record
C12_LastStateResume ==
  (lastEval.seen /\ EffectivePolicy = "lastState")
    => lastEval.invoked = (IF lastEval.last THEN 1 ELSE 0)

\* the device came online with a record saved while connected, and
\* updateConnection() called connect()
C12_Witness ==
  /\ lastEval.seen /\ EffectivePolicy = "lastState"
  /\ lastEval.last /\ lastEval.invoked = 1
  /\ \E c \in Calls : calls[c].kind = "connect" /\ callNotes[c].auto

\* C13: an updateConnection() of an online, not-connected device calls
\* connect() (once) exactly when the policy in force is always, or lastState
\* with a record saved while connected, or onLostConnection with
\* lostConnection true; never under the policy never. The policy in force is
\* the device's own setting when set, else the workspace-wide one
C13_PolicyDecision ==
  lastEval.seen =>
    /\ lastEval.invoked \in {0, 1}
    /\ lastEval.invoked = 1 <=>
         \/ EffectivePolicy = "always"
         \/ EffectivePolicy = "lastState" /\ lastEval.last
         \/ EffectivePolicy = "onLostConnection" /\ lastEval.lost

\* the device's own onLostConnection overrides the workspace's lastState:
\* after a drop, updateConnection() reconnects without a saved record
C13_Witness ==
  /\ lastEval.seen
  /\ devAutoConnect = "onLostConnection" /\ globalAutoConnect = "lastState"
  /\ lastEval.lost /\ ~lastEval.last
  /\ lastEval.invoked = 1

\* C14: a step that changes `connected` leaves a saved record whose
\* connected field equals the device's
C14_RecordFollowsConnected ==
  [][connected' # connected
       => (persisted'.exists /\ persisted'.connected = connected')]_vars

\* a connect() succeeded, a later disconnect() succeeded, and the record
\* says disconnected
C14_Witness ==
  /\ ~connected
  /\ persisted = [exists |-> TRUE, connected |-> FALSE]
  /\ \E c, d \in Calls :
       /\ c < d
       /\ calls[c].kind = "connect" /\ calls[c].result = "resolved"
       /\ calls[d].kind = "disconnect" /\ calls[d].result = "resolved"

Xfers == 1..Len(xfers)
Uploads == 1..Len(uploads)
PutFiles(u) == {j \in Xfers : xfers[j].kind = "putFile" /\ xfers[j].upload = u}
\* the files of the local tree
TreeFiles ==
  IF DOMAIN tree = {} THEN {<<>>}
  ELSE {p \in UNION {{Append(d, tree[d][i]) : i \in 1..Len(tree[d])} : d \in DOMAIN tree} :
          p \notin DOMAIN tree}
\* upload u ran to the end of the tree, no error caught
Completed(u) == uploads[u].result = "resolved" /\ uploads[u].error = "none"

\* C15: in _uploadFile a mkdir answered with EEXIST (or done) is followed by
\* the putFile of the file; a mkdir answered with any other error is followed
\* by no call at all, and its error is the one the upload ends with
C15_MkdirTolerance ==
  \A i \in Xfers :
    (xfers[i].kind = "mkdir" /\ xfers[i].status # "pending") =>
      IF xfers[i].status \in {"resolved", EEXIST}
        THEN /\ i + 1 \in Xfers
             /\ xfers[i + 1].kind = "putFile"
             /\ xfers[i + 1].upload = xfers[i].upload
             /\ dirname(xfers[i + 1].path) = xfers[i].path
        ELSE /\ \A j \in Xfers : j > i => xfers[j].upload # xfers[i].upload
             /\ uploads[xfers[i].upload].error = xfers[i].status

\* the directory was there, the board said EEXIST, and the file was sent
C15_Witness ==
  \E i \in Xfers :
    /\ xfers[i].kind = "mkdir" /\ xfers[i].status = EEXIST
    /\ i + 1 \in Xfers
    /\ xfers[i + 1].kind = "putFile" /\ xfers[i + 1].status = "resolved"
    /\ xfers[i + 1].wrote

\* C16: upload makes sure of the parent directory of every file it comes to:
\* once the board has answered the mkdir issued for a file, that directory
\* is on the board, and so it is for every putFile issued
C16_ParentEnsured ==
  /\ \A i \in Xfers :
       (xfers[i].kind = "mkdir" /\ xfers[i].status \notin {"pending", EIO})
         => xfers[i].path \in board.dirs
  /\ \A j \in Xfers :
       xfers[j].kind = "putFile" => dirname(xfers[j].path) \in board.dirs

\* C17: every putFile comes after a mkdir of the file's directory, issued by
\* the same upload and settled
C17_MkdirBeforePutFile ==
  \A j \in Xfers :
    xfers[j].kind = "putFile" =>
      \E i \in 1..(j - 1) :
        /\ xfers[i].kind = "mkdir"
        /\ xfers[i].upload = xfers[j].upload
        /\ xfers[i].path = dirname(xfers[j].path)
        /\ xfers[i].status # "pending"

\* a file two directories down is being sent, its directory just made
C17_Witness ==
  \E j \in Xfers :
    /\ xfers[j].kind = "putFile" /\ xfers[j].status = "pending"
    /\ xfers[j].path = <<"", "flash", "a", "b", "c.py">>
    /\ xfers[j - 1].kind = "mkdir" /\ xfers[j - 1].status = "resolved"

\* C18 as claimed: an upload that follows a completed upload of the same
\* tree makes no putFile call
C18_NoPutFileOnSecondRun ==
  \A u \in Uploads :
    (u > 1 /\ Completed(u - 1)) => PutFiles(u) = {}

\* C18 amended: an upload that follows a completed upload of the same tree
\* calls putFile with checkIfSimilarBeforeUpload set, once per file when it
\* completes, and no call rewrites a file on the board
C18_SecondRunRewritesNothing ==
  \A u \in Uploads :
    (u > 1 /\ Completed(u - 1)) =>
      /\ \A j \in PutFiles(u) : xfers[j].check /\ ~xfers[j].wrote
      /\ Completed(u) =>
           /\ {xfers[j].path : j \in PutFiles(u)} = {BoardPath(destination \o f) : f \in TreeFiles}
           /\ Cardinality(PutFiles(u)) = Cardinality(TreeFiles)

\* the first upload wrote the files, the second completed after one putFile
\* per file and wrote none
C18_Witness ==
  /\ Len(uploads) >= 2
  /\ Completed(1) /\ Completed(2)
  /\ \E j \in PutFiles(1) : xfers[j].wrote
  /\ Cardinality(PutFiles(2)) >= 2
  /\ \A j \in PutFiles(2) : xfers[j].status = "resolved" /\ ~xfers[j].wrote

\* C19: an upload that met a transfer error (a failed putFile, a failed
\* read of the local file, a mkdir failing with another error than EEXIST)
\* is rejected
C19_TransferErrorRejects ==
  \A u \in Uploads :
    (uploads[u].result # "pending" /\ uploads[u].error # "none")
      => uploads[u].result = "rejected"

ListedFiles == 1..Len(Files(listing))
ListedDirs == {Destination(Dirs(listing)[i]) : i \in 1..Len(Dirs(listing))}

\* C20: no file is fetched or written before every listed directory has
\* been made locally, and the call resolves only with every file fetched and
\* every write completed
C20_DirsFirstWritesAwaited ==
  /\ (\E k \in 1..Len(gets) : gets[k] # "none" \/ writes[k] # "none")
       => ListedDirs \subseteq localDirs
  /\ download.result = "resolved"
       => /\ Len(gets) = Len(Files(listing))
          /\ \A k \in ListedFiles : gets[k] = "resolved" /\ writes[k] = "resolved"

\* a listing with folders and two files was downloaded: the last write
\* was still pending when the last file had been fetched, and the call waits
C20_Witness ==
  /\ download.pc = "writing"
  /\ ListedDirs # {}
  /\ Len(gets) >= 2
  /\ \A k \in ListedFiles : gets[k] = "resolved"
  /\ \E k \in ListedFiles : writes[k] = "pending"
  /\ \E k \in ListedFiles : writes[k] = "resolved"

\* C21: a download with a failed file (a rejected getFile or writeFile)
\* never resolves: once it has settled it is rejected, and a write that
\* fails while the call waits for the writes rejects it at once
C21_FileFailureFails ==
  (\E k \in 1..Len(gets) : gets[k] = "rejected" \/ writes[k] = "rejected")
    => /\ download.result # "resolved"
       /\ download.pc = "done" => download.result = "rejected"
       /\ download.pc # "writing"

\* every file was fetched, one write failed, another succeeded: rejected
C21_Witness ==
  /\ download.result = "rejected"
  /\ Len(gets) = Len(Files(listing))
  /\ \A k \in ListedFiles : gets[k] = "resolved"
  /\ \E k \in ListedFiles : writes[k] = "rejected"
  /\ \E k \in ListedFiles : writes[k] = "resolved"

\* C22: a sendData call never waits: it is never queued nor waiting for a
\* grant and is no entry of the queue; and it keeps no queued command
\* waiting: a command is queued only behind an unsettled serialized
\* operation or a runner about to resume
C22_BypassRunsAtOnce ==
  /\ \A o \in Ops :
       ops[o].kind = "sendData" =>
         /\ ops[o].status \notin {"queued", "granted"}
         /\ \A i \in 1..Len(queue) : queue[i] # o
  /\ \A o \in Ops :
       ops[o].status = "queued" =>
         \/ wake
         \/ \E a \in 1..(o - 1) :
              ops[a].kind # "sendData" /\ ops[a].status \in {"granted", "running"}

\* sendData was called while a queued command was in flight, and runs
C22_Witness ==
  \E a, b \in Ops :
    /\ a < b
    /\ ops[a].kind = "runScript" /\ ops[a].status = "running"
    /\ ops[b].kind = "sendData" /\ ops[b].status = "running"

\* C23: when start(project) completes for a project with n devices the
\* watcher is in Watching with active = TRUE and one device manager per
\* device, and it keeps both for as long as it is not stopped.
C23_StartedWatcher ==
  [][/\ (wState = "Installing" /\ wState' \notin {"Installing", "Idle"})
          => /\ wState' = "Watching"
             /\ active'
             /\ Len(deviceManagers') = projectDevices
     /\ (wState \notin {"Idle", "Installing"} /\ wState' # "Idle")
          => /\ active'
             /\ Len(deviceManagers') = projectDevices]_vars

C23_Witness ==
  /\ projectDevices = MaxDevices
  /\ wState = "Watching"
  /\ active
  /\ Len(deviceManagers) = MaxDevices
  /\ saves = 0

\* C24: in a dev mode session the board shows "uploading Pymakr devtools",
\* then "patching boot.dev", before anything else, and shows the devtools
\* upload at most once; after "changed. Restarting..." the watcher is back
\* in Watching only once the prompt has been shown twice (or the restart
\* was reported as timed out).
C24_FirstSaveOrder ==
  /\ Len(boardLog) >= 1 => boardLog[1] = DevtoolsEvt
  /\ Len(boardLog) >= 2 => boardLog[2] = PatchEvt
  /\ \A i \in 2..Len(boardLog) : boardLog[i] # DevtoolsEvt
  /\ \A i \in 3..Len(boardLog) :
       boardLog[i] = PromptEvt =>
         \/ boardLog[i - 1] = RestartEvt
         \/ boardLog[i - 1] = PromptEvt /\ boardLog[i - 2] = RestartEvt
  /\ wState = "Watching" =>
       /\ LastEvt # RestartEvt
       /\ LastEvt = PromptEvt => boardLog[Len(boardLog) - 1] = PromptEvt

C24_Witness ==
  /\ saves = 1
  /\ wState = "Watching"
  /\ boardLog = <<DevtoolsEvt, PatchEvt, RestartEvt, PromptEvt, PromptEvt>>

\* C25: a failed upload of the changed files takes the watcher from
\* Uploading to Watching, never to Restarting, and the watcher stays active;
\* a file saved after the failure starts an upload again.
C25_UploadFailureKeepsWatching ==
  [][/\ (wState = "Uploading" /\ boardLog' # boardLog /\ LastEvt' = UploadFailedEvt)
          => wState' = "Watching" /\ active'
     /\ (wState = "Watching" /\ LastEvt = UploadFailedEvt /\ saves' # saves)
          => wState' = "Uploading"]_vars

C25_Witness ==
  /\ wState = "Watching"
  /\ saves = 2
  /\ boardLog = <<DevtoolsEvt, PatchEvt, UploadFailedEvt, RestartEvt, PromptEvt, PromptEvt>>

\* C26: every subscriber of the store has been called with the value of the
\* latest set made since it subscribed, each set calls the subscribers in
\* subscription order with the value set, no subscriber is called for a set
\* made before it subscribed, and the onChanged subscriber of the Device
\* constructor is not called for the constructor's own updateConnection().
C26_StoreNotifies ==
  /\ \A i \in 1..Len(storeSubs) :
       storeSubs[i].since < Len(storeSets) =>
         \E d \in 1..Len(delivered) :
           /\ delivered[d].id = storeSubs[i].id
           /\ delivered[d].set = Len(storeSets)
  /\ \A d \in 1..Len(delivered) :
       /\ delivered[d].val = storeSets[delivered[d].set]
       /\ \A i \in 1..Len(storeSubs) :
            storeSubs[i].id = delivered[d].id => storeSubs[i].since < delivered[d].set
  /\ \A d, e \in 1..Len(delivered) :
       d < e =>
         \/ delivered[d].set < delivered[e].set
         \/ delivered[d].set = delivered[e].set /\ delivered[d].id < delivered[e].id
  /\ \A d \in 1..Len(delivered) : ~(delivered[d].id = 1 /\ delivered[d].set = 1)

C26_Witness ==
  /\ ctorPc = 3
  /\ Len(storeSets) = 2
  /\ Len(storeSubs) = 2
  /\ storeSubs[2].since = 1
  /\ Len(delivered) = 2
  /\ delivered[1].id = 1 /\ delivered[2].id = 2

\* C27: the promise waitFor returned carries the primary's outcome whenever
\* the primary settled before the allowance expired; when the allowance
\* expired first it is rejected with the fallback string or Error, or
\* carries the outcome of the fallback function, from the expiry on for a
\* function that returns or throws.
C27_WaitForOutcome ==
  /\ wfFirst = "primary" => wfResult = wfPrimary
  /\ wfFirst = "allowance" =>
       IF IsFunction(wfFallback)
         THEN /\ wfFallback = "returns" => wfResult = ReturnedOutcome("resolved")
              /\ wfFallback = "throws" => wfResult = ReturnedOutcome("rejected")
              /\ wfResult # Pending =>
                   wfResult \in {ReturnedOutcome("resolved"), ReturnedOutcome("rejected")}
         ELSE wfResult = Outcome("rejected", wfFallback)

\* C28: the fallback action has run, and the fallback function has been
\* called, only if the allowance expired before the primary settled.
C28_FallbackOnlyOnExpiry ==
  (wfActions > 0 \/ wfCalls > 0) => wfFirst = "allowance"

\* the call that waited for adapter operation o was rejected by a timeout
TimedOut(o) ==
  /\ calls[ops[o].call].op = o
  /\ calls[ops[o].call].result = "rejected"
  /\ calls[ops[o].call].err \in TimeoutMsgs

\* C29: when an adapter operation settles after the call that waited for it
\* was rejected by a timeout, resolved or rejected, the step changes nothing
\* of the session: connected, connecting, lostConnection, info, the saved
\* record and the outcome of every call stay as they were.
C29_LateSettlementDiscarded ==
  [][\A o \in Ops :
       (TimedOut(o) /\ ops[o].status = "running" /\ ops'[o].status \in Settled)
         => UNCHANGED <<connected, connecting, lostConnection, info, persisted, calls>>]_vars

C29_Witness ==
  \E o \in Ops :
    /\ TimedOut(o)
    /\ ops[o].kind = "connectSerial"
    /\ ops[o].status = "resolved"
    /\ ~connected
    /\ ~persisted.connected

\* C30: with every holder calling imDone in the end, every caller of the
\* queue gets its turn; the queue is empty whenever isRunning is false; and
\* turns are given in call order: a caller has had its turn only once every
\* earlier caller has called imDone.
C30_NoLostWakeup ==
  /\ [](~isRunning => queue = <<>>)
  /\ [](\A a, b \in Ops :
          (a < b /\ ops[b].status # "queued") => ops[a].status \in Settled)
  /\ \A o \in 1..MaxQueued :
       (Len(ops) >= o /\ ops[o].status = "queued")
         ~> (Len(ops) >= o /\ ops[o].status = "granted")

C30_Witness ==
  /\ Len(ops) = MaxQueued
  /\ \A o \in 1..(MaxQueued - 2) : ops[o].status \in Settled
  /\ ops[MaxQueued - 1].status = "granted"
  /\ queue = <<MaxQueued>>
  /\ isRunning

\* C31: fn is invoked once for each window, with the parameters of the call
\* that opened it; every call that has settled carries the outcome of the
\* invocation of its window; a call made when no call is waiting opens a new
\* window; and every call settles in the end.
C31_ThrottledOncePerWindow ==
  /\ [](\A m, n \in 1..Len(thInvocations) :
          /\ thInvocations[n].params = thCalls[thInvocations[n].by].params
          /\ thCalls[thInvocations[n].by].first = thInvocations[n].by
          /\ m # n => thInvocations[m].by # thInvocations[n].by)
  /\ [](\A c \in 1..Len(thCalls) :
          thCalls[c].result # Pending =>
            \E n \in 1..Len(thInvocations) :
              /\ thInvocations[n].by = thCalls[c].first
              /\ thInvocations[n].outcome = thCalls[c].result)
  /\ \A c \in 1..MaxThrottled :
       (Len(thCalls) >= c /\ thCalls[c].result = Pending)
         ~> (Len(thCalls) >= c /\ thCalls[c].result # Pending)

C31_Witness ==
  /\ Len(thCalls) = 3
  /\ thCalls[1].params # thCalls[2].params
  /\ thCalls[2].first = 1
  /\ thCalls[2].result = thCalls[1].result
  /\ thCalls[1].result.status = "resolved"
  /\ thCalls[3].first = 3
  /\ thCalls[3].result.status = "rejected"
  /\ Len(thInvocations) = 2

\* the pushes that opened a batch: no promise was pending when they were made
Batches == {k \in 1..Len(raPushes) : ~raPushes[k].joined}

\* C32: the callback is called only when every promise pushed so far has
\* resolved, and by the latest push; no push calls it twice and it is called
\* at most once per batch; once everything pushed has resolved the latest
\* push has called it; no callback follows a rejected promise.
C32_CallbackPerBatch ==
  /\ \A c \in 1..Len(raCallbacks) :
       /\ raCallbacks[c].allResolved
       /\ raCallbacks[c].by = raCallbacks[c].pushed
       /\ \A r \in 1..Len(raPushes) :
            raPushes[r].status = "rejected" => raCallbacks[c].by < r
       /\ \A d \in 1..Len(raCallbacks) : c # d => raCallbacks[c].by # raCallbacks[d].by
  /\ Len(raCallbacks) <= Cardinality(Batches)
  /\ (raPushes # <<>> /\ \A i \in 1..Len(raPushes) : raPushes[i].status = "resolved")
       => /\ raCallbacks # <<>>
          /\ raCallbacks[Len(raCallbacks)].by = Len(raPushes)

C32_Witness ==
  /\ Len(raPushes) = 3
  /\ raPushes[2].joined
  /\ ~raPushes[3].joined
  /\ Len(raCallbacks) = 2
  /\ raCallbacks[1].by = 2
  /\ raCallbacks[2].by = 3

\* C33: while lostConnection is set (the device was connected and
\* updateConnection() took its offline branch) the device is not connected
\* and the saved record says connected = false; and under the policy
\* lastState an updateConnection() of the device back online, made in that
\* situation, reads that record and does not call connect().
C33_NoResumeAfterOffline ==
  /\ lostConnection =>
       /\ ~connected
       /\ persisted.exists /\ ~persisted.connected
  /\ (lastEval.seen /\ lastEval.lost /\ EffectivePolicy = "lastState")
       => (~lastEval.last /\ lastEval.invoked = 0)

\* a connect() succeeded, the device went offline and came back, and
\* updateConnection() under lastState left it disconnected
C33_Witness ==
  /\ EffectivePolicy = "lastState"
  /\ \E c \in Calls : calls[c].kind = "connect" /\ calls[c].result = "resolved"
  /\ lastEval.seen /\ lastEval.lost
  /\ lastEval.invoked = 0
  /\ online /\ ~connected /\ lostConnection

\* transport call i failed its entry's upload: any error of putFile, any
\* error of mkdir but EEXIST
FailedXfer(i) ==
  /\ xfers[i].status \notin {"pending", "resolved"}
  /\ ~(xfers[i].kind = "mkdir" /\ xfers[i].status = EEXIST)

\* C34: a transport call of an upload is issued only once every earlier
\* call has settled; after a call that failed its entry's upload the same
\* upload issues no further mkdir or putFile; and an upload that ended with
\* an error has dropped the entries that remained.
C34_SequentialStopsAtFailure ==
  /\ \A i \in Xfers : i < Len(xfers) => xfers[i].status # "pending"
  /\ \A i, j \in Xfers :
       (i < j /\ xfers[i].upload = xfers[j].upload) => ~FailedXfer(i)
  /\ \A u \in Uploads :
       uploads[u].error # "none" =>
         /\ uploads[u].result # "pending"
         /\ u = Len(uploads) => todo = <<>>
         /\ \A i \in Xfers : xfers[i].upload = u => xfers[i].status # "pending"

\* in the nested folder the putFile of a/a.py failed: the upload ended
\* there, and nothing was issued for a/b/c.py
C34_Witness ==
  /\ tree = NestedTree
  /\ Len(uploads) = 1
  /\ uploads[1].error = EIO
  /\ Len(xfers) = 2
  /\ xfers[2].kind = "putFile"
  /\ xfers[2].path = <<"", "flash", "a", "a.py">>
  /\ xfers[2].status = EIO
  /\ todo = <<>>

\* C35: fn is invoked at most once whatever calls of the wrapper are made,
\* and every call that ended after the first one returned what the first
\* call returned.
C35_OnceAtMostOnce ==
  /\ onInvocations <= 1
  /\ \A i \in 2..Len(onReturns) : onReturns[i].value = onReturns[1].value

====
